-------------------------- MODULE NodeThreadsProofs --------------------------
(* TLAPS proofs about NodeThreads, for any number of workers, messages,       *)
(* recipients, packets and descriptors.                                       *)
EXTENDS NodeThreads, FiniteSetTheorems, FunctionTheorems, TLAPS

(* Who can own which lock: the sections below that of its own lock, and those *)
(* a thread goes on to with the lock.                                         *)
LockOrder ==
    \A t \in Threads :
        /\ owner["controller"] = t => pc[t] \in ControllerSections \cup {"show", "mark", "notify"}
        /\ owner["model"] = t => pc[t] \in ModelSections \cup {"notify"}
        /\ owner["handler"] = t => pc[t] \in HandlerSections

(* The types but for the count of descriptors. *)
Types ==
    /\ pc \in [Threads -> UIPlaces \cup SenderPlaces \cup WorkerPlaces]
    /\ pc[UI] \in UIPlaces
    /\ \A m \in Messages : pc[m] \in SenderPlaces
    /\ \A w \in Workers : pc[w] \in WorkerPlaces /\ (pc[w] = "idle" <=> task[w] = Nobody)
    /\ owner \in [Locks -> Threads \cup {Nobody}] /\ poisoned \subseteq Locks
    /\ page \in Pages /\ hasRoom \in BOOLEAN /\ accepting \in BOOLEAN
    /\ queue \subseteq Tasks /\ task \in [Workers -> Tasks \cup {Nobody}]
    /\ arrived \subseteq Packets /\ todo \in [Messages -> SUBSET Recipients]
    /\ \A w \in Workers :
          pc[w] \in {"reading", "stalled", "decode", "show", "mark"} => task[w].what = "receive"

LEMMA InitTypes == Init => Types
BY ThreadsAssumption, PagesAssumption
   DEF Init, Types, Threads, Locks, UIPlaces, SenderPlaces, WorkerPlaces

LEMMA TaskKinds ==
    /\ \A p \in Packets : Receive(p) \in Tasks /\ SendAck(p) \in Tasks
    /\ \A m \in Messages, r \in Recipients : Send(m, r) \in Tasks
    /\ \A j \in Tasks : j.what \in {"receive", "ack", "send"}
    /\ \A j \in Tasks : j.what # "send" => j.about \in Packets
BY DEF Tasks, Receive, SendAck, Send

(* Where the parts of a step lead, whatever the action. *)
LEMMA TypesStep == Types /\ [Next]_vars => Types'
<1> SUFFICES ASSUME Types, [Next]_vars PROVE Types'
  OBVIOUS
<1> USE ThreadsAssumption DEF Types, windowVars, lockVars, listenerVars
<1>0. \A t \in Threads : t = UI \/ t \in Messages \/ t \in Workers
  BY DEF Threads
<1>1. CASE UNCHANGED vars
  BY <1>1 DEF vars
<1>2. ASSUME NEW t \in Threads, Panic(t) PROVE Types'
  BY <1>2, <1>0 DEF Panic, LeaveAll, EndTask, Goto, Threads, UIPlaces, SenderPlaces, WorkerPlaces
<1>3. ASSUME NEW t \in Threads, Enter(t) PROVE Types'
  <2>1. LockOf(pc[t]) \in Locks
    BY <1>3 DEF Enter, LockOf, Sections, Locks
  <2>2. QED
    BY <1>3, <2>1 DEF Enter
<1>4. ASSUME NEW t \in Threads, OnEvent(t) PROVE Types'
  BY <1>4, <1>0 DEF OnEvent, Inside, At, LeaveAll, EndTask, Goto, Threads, UIPlaces, SenderPlaces, WorkerPlaces
<1>5. ASSUME NEW t \in Threads, Report(t) PROVE Types'
  BY <1>5, <1>0 DEF Report, Inside, At, Goto, Threads, UIPlaces, SenderPlaces, WorkerPlaces
<1>6. ASSUME NEW next \in UIPlaces \cap {"open", "idle", "prompt", "view", "compose", "graph", "repaint"},
             NEW section, UISection(section, next) PROVE Types'
  BY <1>6 DEF UISection, LeaveAll, Goto, Threads
<1>7. CASE UINext
  <2>1. CASE StartFrame
    BY <2>1 DEF StartFrame, Goto, Threads, UIPlaces
  <2>2. CASE \E m \in Messages : Compose(m)
    BY <2>2 DEF Compose, LeaveAll, Threads, UIPlaces, SenderPlaces
  <2>3. CASE View
    BY <2>3 DEF View, Goto, Threads, UIPlaces
  <2>4. CASE NoRoom \/ NarrowSplit
    BY <2>4, <1>2 DEF NoRoom, NarrowSplit, Threads
  <2>5. QED
    BY <1>7, <1>6, <2>1, <2>2, <2>3, <2>4
       DEF UINext, AddObserver, OpenWindow, SettingsBar, Prompt, DrawList, DrawGraph,
           RequestRepaint, UIPlaces
<1>8. ASSUME NEW m \in Messages, SenderNext(m) PROVE Types'
  <2>1. CASE AddMessage(m)
    BY <2>1 DEF AddMessage, Goto, Threads, SenderPlaces
  <2>2. CASE ManageSendEnds(m)
    BY <2>2 DEF ManageSendEnds, EndTask, Goto, Threads, SenderPlaces
  <2>3. ASSUME NEW r \in Recipients, SendToPeer(m, r) PROVE Types'
    BY <2>3, TaskKinds DEF SendToPeer
  <2>4. ASSUME NEW r \in Recipients, NoSocket(m, r) PROVE Types'
    BY <2>4 DEF NoSocket, Goto, Threads, SenderPlaces
  <2>5. QED
    BY <1>8, <2>1, <2>2, <2>3, <2>4 DEF SenderNext
<1>9. ASSUME NEW w \in Workers, WorkerNext(w) PROVE Types'
  <2> USE DEF Threads, WorkerPlaces
  <2>1. ASSUME NEW j \in queue, Take(w, j) PROVE Types'
    BY <2>1, TaskKinds DEF Take, FirstStep, Goto
  <2>2. CASE ReadToEnd(w) \/ Stall(w)
    BY <2>2 DEF ReadToEnd, Stall, At, Goto
  <2>3. CASE DecodeChat(w)
    BY <2>3, TaskKinds DEF DecodeChat, Inside, At, Proceed, LeaveAll, EndTask, Goto
  <2>4. CASE CloneFails(w)
    BY <2>4, <1>2 DEF CloneFails
  <2>5. CASE DecodeAck(w) \/ DropJunk(w)
    BY <2>5 DEF DecodeAck, DropJunk, Inside, At, Proceed, LeaveAll, EndTask, Goto
  <2>6. CASE OnSocketEvent(w) \/ OnAckReceived(w)
    BY <2>6 DEF OnSocketEvent, OnAckReceived, Inside, At, Proceed, LeaveAll, EndTask, Goto
  <2>7. CASE TaskEnds(w) \/ SendTaskFails(w)
    BY <2>7 DEF TaskEnds, SendTaskFails, At, EndTask, Goto
  <2>8. QED
    BY <1>9, <2>1, <2>2, <2>3, <2>4, <2>5, <2>6, <2>7 DEF WorkerNext
<1>10. ASSUME NEW p \in Packets, Arrive(p) PROVE Types'
  BY <1>10, TaskKinds DEF Arrive
<1>11. CASE ListenerEnds
  BY <1>11 DEF ListenerEnds
<1>12. QED
  BY <1>1, <1>2, <1>3, <1>4, <1>5, <1>7, <1>8, <1>9, <1>10, <1>11
     DEF Next, Step, EnterPoisoned

----------------------------------------------------------------------------
(* Descriptors *)

Within == IsFiniteSet(Held) /\ Cardinality(Held) <= Descriptors

LEMMA OneMore ==
    ASSUME NEW S, NEW T, NEW x, NEW n \in Nat, IsFiniteSet(S), T \subseteq S \cup {x},
           Cardinality(S) < n \/ (T \subseteq S /\ Cardinality(S) <= n)
    PROVE  IsFiniteSet(T) /\ Cardinality(T) <= n
<1>1. Cardinality(S) \in Nat
  BY FS_CardinalityType
<1>2. CASE T \subseteq S
  <2>1. IsFiniteSet(T) /\ Cardinality(T) <= Cardinality(S)
    BY <1>2, FS_Subset
  <2>2. Cardinality(T) \in Nat
    BY <2>1, FS_CardinalityType
  <2>3. QED
    BY <1>1, <2>1, <2>2
<1>3. CASE Cardinality(S) < n
  <2>a. /\ IsFiniteSet(S \cup {x})
        /\ Cardinality(S \cup {x}) = Cardinality(S) \/ Cardinality(S \cup {x}) = Cardinality(S) + 1
    BY FS_AddElement
  <2>1. IsFiniteSet(S \cup {x}) /\ Cardinality(S \cup {x}) <= Cardinality(S) + 1
    BY <1>1, <2>a
  <2>2. IsFiniteSet(T) /\ Cardinality(T) <= Cardinality(S \cup {x})
    BY <2>1, FS_Subset
  <2>3. Cardinality(T) \in Nat /\ Cardinality(S \cup {x}) \in Nat
    BY <2>1, <2>2, FS_CardinalityType
  <2>4. QED
    BY <1>1, <1>3, <2>1, <2>2, <2>3
<1>4. QED
  BY <1>2, <1>3

(* A step keeps the descriptors in use, gives some back, or takes one that  *)
(* was free.                                                                *)
LEMMA HeldGrowsByOne ==
    ASSUME Types, Within, [Next]_vars
    PROVE  \/ Held' \subseteq Held
           \/ Free > 0 /\ \E x : Held' \subseteq Held \cup {x}
<1> USE DEF Types, windowVars, lockVars, listenerVars
<1>m. Cardinality(Held) \in Nat
  BY FS_CardinalityType DEF Within
<1>0. Held' = {j \in Alive' : HoldsDescriptor(j)}
  BY DEF Held, HoldsDescriptor
<1>1. SUFFICES \/ Alive' \subseteq Alive
               \/ Free > 0 /\ \E x : Alive' \subseteq Alive \cup {x}
               \/ \E x : Alive' \subseteq Alive \cup {x} /\ ~ HoldsDescriptor(x)
  BY <1>0 DEF Held
<1>2. CASE UNCHANGED <<queue, task>>
  BY <1>2 DEF Alive
<1>3. ASSUME NEW t \in Threads, EndTask(t), UNCHANGED queue PROVE Alive' \subseteq Alive
  BY <1>3, ThreadsAssumption DEF EndTask, Alive
<1>4. ASSUME NEW w \in Workers, NEW j \in queue, Take(w, j) PROVE Alive' \subseteq Alive
  BY <1>4 DEF Take, Alive
<1>5. ASSUME NEW w \in Workers, NEW goesOn, NEW section, Proceed(w, goesOn, section)
      PROVE  /\ UNCHANGED queue => Alive' \subseteq Alive
             /\ \A x : queue' = queue \cup {x} => Alive' \subseteq Alive \cup {x}
  <2>1. task' = task \/ task' = [v \in Workers |-> IF v = w THEN Nobody ELSE task[v]]
    BY <1>5 DEF Proceed, EndTask
  <2>2. QED
    BY <2>1 DEF Alive
<1>6. ASSUME NEW p \in Packets, Arrive(p)
      PROVE  /\ Alive' \subseteq Alive \cup {Receive(p)}
             /\ HoldsDescriptor(Receive(p)) => Free > 0
  BY <1>6 DEF Arrive, Alive, HoldsDescriptor, Receive
<1>7. ASSUME NEW m \in Messages, NEW r \in Recipients, SendToPeer(m, r)
      PROVE  Free > 0 /\ Alive' \subseteq Alive \cup {Send(m, r)}
  BY <1>7 DEF SendToPeer, Alive
<1>8. ASSUME NEW w \in Workers, DecodeChat(w)
      PROVE  \/ Alive' \subseteq Alive
             \/ Free >= 2 /\ Alive' \subseteq Alive \cup {SendAck(task[w].about)}
  BY <1>5, <1>8 DEF DecodeChat
<1>9. ASSUME NEW t \in Threads, Panic(t) PROVE Alive' \subseteq Alive
  BY <1>3, <1>9 DEF Panic
<1>10. CASE UINext
  BY <1>2, <1>9, <1>10
     DEF UINext, AddObserver, OpenWindow, StartFrame, SettingsBar, NoRoom, Prompt, Compose,
         View, NarrowSplit, DrawList, DrawGraph, RequestRepaint, UISection, Threads
<1>11. ASSUME NEW m \in Messages, SenderNext(m)
       PROVE  Alive' \subseteq Alive \/ (Free > 0 /\ \E x : Alive' \subseteq Alive \cup {x})
  <2>1. CASE AddMessage(m)
    BY <1>2, <2>1 DEF AddMessage, Alive
  <2>2. CASE ManageSendEnds(m)
    BY <1>3, <2>2 DEF ManageSendEnds, Threads
  <2>3. ASSUME NEW r \in Recipients, NoSocket(m, r) PROVE Alive' \subseteq Alive
    BY <2>3 DEF NoSocket, Alive
  <2>4. QED
    BY <1>7, <1>11, <2>1, <2>2, <2>3 DEF SenderNext
<1>12. ASSUME NEW w \in Workers, WorkerNext(w)
       PROVE  Alive' \subseteq Alive \/ (Free > 0 /\ \E x : Alive' \subseteq Alive \cup {x})
  <2>1. CASE ReadToEnd(w) \/ Stall(w) \/ SendTaskFails(w)
    BY <2>1 DEF ReadToEnd, Stall, SendTaskFails, Alive
  <2>2. CASE CloneFails(w)
    BY <1>9, <2>2 DEF CloneFails, Threads
  <2>3. CASE DropJunk(w) \/ TaskEnds(w)
    BY <1>3, <2>3 DEF DropJunk, TaskEnds, Threads
  <2>4. CASE DecodeAck(w)
    BY <1>5, <2>4 DEF DecodeAck
  <2>5. CASE OnSocketEvent(w) \/ OnAckReceived(w)
    BY <1>5, <2>5 DEF OnSocketEvent, OnAckReceived
  <2>6. CASE DecodeChat(w)
    <3>1. CASE Alive' \subseteq Alive
      BY <3>1
    <3>2. CASE Free >= 2 /\ Alive' \subseteq Alive \cup {SendAck(task[w].about)}
      <4>1. Free >= 2 => Free > 0
        BY DescriptorsAssumption, <1>m DEF Free
      <4>2. QED
        BY <3>2, <4>1
    <3>3. QED
      BY <1>8, <2>6, <3>1, <3>2
  <2>7. QED
    BY <1>4, <1>12, <2>1, <2>2, <2>3, <2>4, <2>5, <2>6 DEF WorkerNext
<1>13. CASE UNCHANGED vars \/ ListenerEnds \/ \E t \in Threads : Enter(t) \/ Report(t)
  BY <1>2, <1>13 DEF vars, ListenerEnds, Enter, Report
<1>14. ASSUME NEW t \in Threads, OnEvent(t) PROVE Alive' \subseteq Alive
  BY <1>3, <1>14 DEF OnEvent, Alive
<1>15. ASSUME NEW p \in Packets, Arrive(p)
       PROVE  \/ Free > 0 /\ \E x : Alive' \subseteq Alive \cup {x}
              \/ \E x : Alive' \subseteq Alive \cup {x} /\ ~ HoldsDescriptor(x)
  BY <1>6, <1>15
<1>16. QED
  BY <1>9, <1>10, <1>11, <1>12, <1>13, <1>14, <1>15 DEF Next, Step, EnterPoisoned

LEMMA InitWithin == Init => Within
<1> SUFFICES ASSUME Init PROVE Within
  OBVIOUS
<1>1. Held = {}
  BY DEF Init, Held, Alive
<1>2. IsFiniteSet({}) /\ Cardinality({}) = 0
  BY FS_EmptySet
<1>3. QED
  BY <1>1, <1>2, DescriptorsAssumption DEF Within

LEMMA WithinStep == Types /\ Within /\ [Next]_vars => Within'
<1> SUFFICES ASSUME Types, Within, [Next]_vars PROVE Within'
  OBVIOUS
<1>1. Cardinality(Held) \in Nat /\ IsFiniteSet(Held)
  BY FS_CardinalityType DEF Within
<1>2. CASE Held' \subseteq Held
  <2>1. IsFiniteSet(Held') /\ Cardinality(Held') <= Cardinality(Held)
    BY <1>1, <1>2, FS_Subset
  <2>2. Cardinality(Held') \in Nat
    BY <2>1, FS_CardinalityType
  <2>3. QED
    BY <1>1, <2>1, <2>2, DescriptorsAssumption DEF Within
<1>3. CASE Free > 0 /\ \E x : Held' \subseteq Held \cup {x}
  <2>1. Cardinality(Held) < Descriptors
    BY <1>1, <1>3, DescriptorsAssumption DEF Free
  <2>2. PICK x : Held' \subseteq Held \cup {x}
    BY <1>3
  <2>3. IsFiniteSet(Held') /\ Cardinality(Held') <= Descriptors
    BY <1>1, <2>1, <2>2, OneMore, DescriptorsAssumption
  <2>4. QED
    BY <2>3, DescriptorsAssumption DEF Within
<1>4. QED
  BY <1>2, <1>3, HeldGrowsByOne

(* Every variable keeps its type, and the connections and sockets of the     *)
(* tasks never exceed the descriptors of the process (socket.rs, accept and  *)
(* GenericSocket::new).                                                      *)
THEOREM TypeCorrect == Spec => []TypeOK
<1>1. Types /\ Within => TypeOK
  <2> SUFFICES ASSUME Types, Within PROVE TypeOK
    OBVIOUS
  <2>1. Cardinality(Held) \in Nat
    BY FS_CardinalityType DEF Within
  <2>2. Free >= 0
    BY <2>1, DescriptorsAssumption DEF Within, Free
  <2>3. QED
    BY <2>2 DEF Types, TypeOK
<1>2. QED
  BY <1>1, InitTypes, InitWithin, TypesStep, WithinStep, PTL DEF Spec

----------------------------------------------------------------------------
(* The order of the locks *)

LEMMA InitOrder == Init => LockOrder
BY ThreadsAssumption DEF Init, LockOrder, Locks, Threads

LEMMA OrderStep == Types /\ LockOrder /\ [Next]_vars => LockOrder'
<1> SUFFICES ASSUME Types, LockOrder, [Next]_vars PROVE LockOrder'
  OBVIOUS
<1> USE ThreadsAssumption
    DEF LockOrder, lockVars, Locks, ControllerSections, ModelSections, HandlerSections
<1>1. pc \in [Threads -> UIPlaces \cup SenderPlaces \cup WorkerPlaces]
      /\ owner \in [Locks -> Threads \cup {Nobody}] /\ Nobody \notin Threads
  BY DEF Types
<1>2. CASE UNCHANGED <<pc, owner>>
  BY <1>2
<1>3. ASSUME NEW t \in Threads, LeaveAll(t), \A u \in Threads \ {t} : owner["controller"] = u
             \/ owner["model"] = u \/ owner["handler"] = u => pc'[u] = pc[u]
      PROVE  LockOrder'
  BY <1>1, <1>3 DEF LeaveAll
<1>4. ASSUME NEW t \in Threads, EndTask(t) PROVE \A u \in Threads \ {t} : pc'[u] = pc[u]
  BY <1>1, <1>4 DEF EndTask, Goto
<1>5. ASSUME NEW t \in Threads, Panic(t) PROVE LockOrder'
  BY <1>3, <1>4, <1>5 DEF Panic
<1>6. ASSUME NEW t \in Threads, Enter(t) PROVE LockOrder'
  BY <1>1, <1>6 DEF Enter, LockOf, Sections
<1>7. ASSUME NEW t \in Threads, OnEvent(t) PROVE LockOrder'
  BY <1>1, <1>3, <1>4, <1>7 DEF OnEvent, Goto
<1>8. ASSUME NEW t \in Threads, Report(t) PROVE LockOrder'
  BY <1>1, <1>8 DEF Report, Inside, At, Goto
<1>9. ASSUME NEW section, NEW next, UISection(section, next) PROVE LockOrder'
  BY <1>1, <1>3, <1>9 DEF UISection, Goto, Threads
<1>10. CASE UINext
  <2>1. CASE StartFrame \/ View
    BY <1>1, <2>1 DEF StartFrame, View, At, Goto, Threads
  <2>2. ASSUME NEW m \in Messages, Compose(m) PROVE LockOrder'
    BY <1>1, <2>2 DEF Compose, LeaveAll, Threads
  <2>3. CASE NoRoom \/ NarrowSplit
    BY <1>5, <2>3 DEF NoRoom, NarrowSplit, Threads
  <2>4. QED
    BY <1>9, <1>10, <2>1, <2>2, <2>3
       DEF UINext, AddObserver, OpenWindow, SettingsBar, Prompt, DrawList, DrawGraph, RequestRepaint
<1>11. ASSUME NEW m \in Messages, SenderNext(m) PROVE LockOrder'
  <2>1. CASE AddMessage(m)
    BY <1>1, <2>1 DEF AddMessage, Inside, At, Goto, Threads
  <2>2. CASE ManageSendEnds(m)
    BY <1>1, <1>4, <2>2 DEF ManageSendEnds, At, Threads
  <2>3. ASSUME NEW r \in Recipients, SendToPeer(m, r) \/ NoSocket(m, r) PROVE LockOrder'
    BY <1>1, <2>3 DEF SendToPeer, NoSocket, At, Goto, Threads
  <2>4. QED
    BY <1>11, <2>1, <2>2, <2>3 DEF SenderNext
<1>12. ASSUME NEW w \in Workers, WorkerNext(w) PROVE LockOrder'
  <2> USE DEF Threads
  <2>1. ASSUME NEW goesOn, NEW section \in {"show", "mark", "notify"}, Proceed(w, goesOn, section),
               pc[w] = "decode" \/ (pc[w] \in {"show", "mark"} /\ section = "notify")
        PROVE  LockOrder'
    <3>1. CASE LeaveAll(w) /\ EndTask(w)
      BY <1>3, <1>4, <3>1
    <3>2. CASE Goto(w, section) /\ UNCHANGED owner
      BY <1>1, <2>1, <3>2 DEF Goto
    <3>3. QED
      BY <2>1, <3>1, <3>2 DEF Proceed
  <2>2. ASSUME NEW j \in queue, Take(w, j) PROVE LockOrder'
    BY <1>1, <2>2 DEF Take, At, Goto
  <2>3. CASE ReadToEnd(w) \/ Stall(w) \/ SendTaskFails(w)
    BY <1>1, <2>3 DEF ReadToEnd, Stall, SendTaskFails, At, Goto
  <2>4. CASE CloneFails(w)
    BY <1>5, <2>4 DEF CloneFails
  <2>5. CASE DropJunk(w)
    BY <1>3, <1>4, <2>5 DEF DropJunk
  <2>6. CASE TaskEnds(w)
    BY <1>1, <1>4, <2>6 DEF TaskEnds, At
  <2>7. CASE DecodeChat(w) \/ DecodeAck(w)
    BY <2>1, <2>7 DEF DecodeChat, DecodeAck, Inside, At
  <2>8. CASE OnSocketEvent(w) \/ OnAckReceived(w)
    BY <2>1, <2>8 DEF OnSocketEvent, OnAckReceived, Inside, At
  <2>9. QED
    BY <1>12, <2>2, <2>3, <2>4, <2>5, <2>6, <2>7, <2>8 DEF WorkerNext
<1>13. CASE UNCHANGED vars \/ ListenerEnds \/ \E p \in Packets : Arrive(p)
  BY <1>2, <1>13 DEF vars, ListenerEnds, Arrive
<1>14. QED
  BY <1>5, <1>6, <1>7, <1>8, <1>10, <1>11, <1>12, <1>13 DEF Next, Step, EnterPoisoned

LEMMA Ordered == Spec => [](Types /\ LockOrder)
BY InitTypes, TypesStep, InitOrder, OrderStep, PTL DEF Spec

(* The owner of a lock waits for none or for one that comes later in the     *)
(* order, and the owner of the last waits for none: the threads of a node    *)
(* never deadlock on the controller, the model and the handler (app.rs:97,   *)
(* socket.rs:317, message_prompt.rs:140).                                    *)
THEOREM NoDeadlock == Spec => []NoCircularWait
<1>1. Types /\ LockOrder => NoCircularWait
  <2> SUFFICES ASSUME Types, LockOrder,
                      NEW S \in (SUBSET Threads) \ {{}},
                      \A t \in S : Waiting(t) /\ owner[LockOf(pc[t])] \in S
               PROVE  FALSE
    BY DEF NoCircularWait
  <2> USE DEF LockOrder, ControllerSections, ModelSections, HandlerSections
  <2>1. \A t \in S : t \in Threads
    OBVIOUS
  <2>2. ASSUME NEW t \in S, LockOf(pc[t]) = "handler" PROVE FALSE
    <3>1. PICK o \in S : owner["handler"] = o
      BY <2>2
    <3>2. pc[o] \in HandlerSections
      BY <2>1, <3>1
    <3>3. LockOf(pc[o]) = "handler"
      BY <3>2 DEF LockOf
    <3>4. QED
      BY <3>1, <3>3 DEF Waiting
  <2>3. ASSUME NEW t \in S, LockOf(pc[t]) = "model" PROVE FALSE
    <3>1. PICK o \in S : owner["model"] = o
      BY <2>3
    <3>2. pc[o] \in ModelSections \cup {"notify"}
      BY <2>1, <3>1
    <3>3. LockOf(pc[o]) = "handler" \/ LockOf(pc[o]) = "model"
      BY <3>2 DEF LockOf
    <3>4. QED
      BY <2>2, <3>1, <3>3 DEF Waiting
  <2>4. ASSUME NEW t \in S, LockOf(pc[t]) = "controller" PROVE FALSE
    <3>1. PICK o \in S : owner["controller"] = o
      BY <2>4
    <3>2. pc[o] \in ControllerSections \cup {"show", "mark", "notify"}
      BY <2>1, <3>1
    <3>3. LockOf(pc[o]) \in {"handler", "model", "controller"}
      BY <3>2 DEF LockOf
    <3>4. QED
      BY <2>2, <2>3, <3>1, <3>3 DEF Waiting
  <2>5. PICK t \in S : TRUE
    OBVIOUS
  <2>6. LockOf(pc[t]) \in {"handler", "model", "controller"}
    BY DEF LockOf, Waiting, Sections
  <2>7. QED
    BY <2>2, <2>3, <2>4, <2>6
<1>2. QED
  BY <1>1, Ordered, PTL

----------------------------------------------------------------------------
(* Panics *)

LEMMA PoisonStep == Types /\ LockOrder /\ PoisonConfined /\ [Next]_vars => PoisonConfined'
<1> SUFFICES ASSUME Types, LockOrder, PoisonConfined, [Next]_vars, Running' PROVE PoisonConfined'
  BY DEF PoisonConfined
<1> USE ThreadsAssumption DEF PoisonConfined, lockVars
<1>1. UI \in Threads /\ pc \in [Threads -> UIPlaces \cup SenderPlaces \cup WorkerPlaces]
      /\ owner \in [Locks -> Threads \cup {Nobody}]
  BY DEF Types, Threads
<1>2. ASSUME Panic(UI) PROVE FALSE
  BY <1>1, <1>2 DEF Panic, EndTask, Goto, Running
<1>3. ASSUME NEW t \in Threads, Running, Panic(t), pc[t] \in ControllerSections
      PROVE  PoisonConfined'
  <2>1. \A l \in Locks : owner[l] = t => l = "controller"
    BY <1>3 DEF LockOrder, Locks, ControllerSections, ModelSections, HandlerSections
  <2>2. QED
    BY <1>3, <2>1 DEF Panic
<1>4. ASSUME NEW t \in Threads, EnterPoisoned(t) PROVE PoisonConfined'
  <2>1. Running /\ LockOf(pc[t]) = "controller" /\ pc[t] \in Sections
    BY <1>4 DEF EnterPoisoned
  <2>2. pc[t] \in ControllerSections
    BY <2>1 DEF LockOf, Sections, ControllerSections, ModelSections, HandlerSections
  <2>3. QED
    BY <1>3, <1>4, <2>1, <2>2 DEF EnterPoisoned
<1>5. CASE UNCHANGED <<poisoned>> /\ Running
  BY <1>5
<1>6. CASE UINext
  BY <1>2, <1>5, <1>6
     DEF UINext, AddObserver, OpenWindow, StartFrame, SettingsBar, NoRoom, Prompt, Compose,
         View, NarrowSplit, DrawList, DrawGraph, RequestRepaint, UISection, Inside, At
<1>7. ASSUME NEW m \in Messages, SenderNext(m) PROVE PoisonConfined'
  BY <1>5, <1>7
     DEF SenderNext, AddMessage, ManageSendEnds, SendToPeer, NoSocket, Inside, At
<1>8. ASSUME NEW w \in Workers, WorkerNext(w) PROVE PoisonConfined'
  <2>1. CASE CloneFails(w)
    BY <1>3, <2>1 DEF CloneFails, Inside, At, Threads, ControllerSections
  <2>2. CASE ~ CloneFails(w)
    BY <1>5, <1>8, <2>2
       DEF WorkerNext, Take, ReadToEnd, Stall, DecodeChat, DecodeAck, DropJunk, OnSocketEvent,
           OnAckReceived, TaskEnds, SendTaskFails, Inside, At
  <2>3. QED
    BY <2>1, <2>2
<1>9. CASE UNCHANGED vars
  BY <1>9 DEF vars, Running
<1>10. QED
  BY <1>4, <1>5, <1>6, <1>7, <1>8, <1>9
     DEF Next, Step, Enter, OnEvent, Report, Arrive, ListenerEnds, Inside, At

(* A task that panics takes only the controller along: the locks the frames  *)
(* need are never poisoned under a running window (ack.rs:88, socket.rs:139).*)
THEOREM PanicsAreConfined == Spec => []PoisonConfined
<1>1. Init => PoisonConfined
  BY DEF Init, PoisonConfined
<1>2. QED
  BY <1>1, Ordered, PoisonStep, PTL DEF Spec

(* The window closes by itself only before main has added its observer,      *)
(* without a room, or in a narrow split view (ui.rs:71).                     *)
THEOREM WindowStays == Spec => WindowSurvives
<1> DEFINE Excused ==
      \/ pc[UI] = "observe"
      \/ pc[UI] = "settings" /\ ~ hasRoom
      \/ pc[UI] = "view" /\ page = "Split"
<1>1. ASSUME Types, PoisonConfined, [Next]_vars, Running, ~ Running' PROVE Excused
  <2> USE <1>1, ThreadsAssumption DEF Running
  <2>1. UI \in Threads /\ pc \in [Threads -> UIPlaces \cup SenderPlaces \cup WorkerPlaces]
        /\ pc[UI] \in UIPlaces /\ pc'[UI] = "ended"
    BY DEF Types, Threads
  <2>2. ASSUME NEW t \in Threads \ {UI}, EndTask(t) \/ \E s : Goto(t, s) PROVE FALSE
    BY <2>1, <2>2 DEF EndTask, Goto
  <2>3. ASSUME NEW t \in Threads, EnterPoisoned(t) PROVE Excused
    <3>1. t = UI
      BY <2>2, <2>3 DEF EnterPoisoned, Panic
    <3>2. LockOf(pc[UI]) = "controller" /\ pc[UI] \in Sections
      BY <2>3, <3>1 DEF EnterPoisoned, PoisonConfined
    <3>3. pc[UI] \in ControllerSections
      BY <3>2 DEF LockOf, Sections, ControllerSections, ModelSections, HandlerSections
    <3>4. QED
      BY <2>1, <3>3 DEF ControllerSections, UIPlaces
  <2>4. CASE UINext
    <3>1. ASSUME NEW section, NEW next \in {"open", "idle", "prompt", "view", "compose", "graph", "repaint"},
                 UISection(section, next)
          PROVE  FALSE
      BY <2>1, <3>1 DEF UISection, Goto
    <3>2. CASE StartFrame \/ View
      BY <2>1, <3>2 DEF StartFrame, View, Goto
    <3>3. ASSUME NEW m \in Messages, Compose(m) PROVE FALSE
      BY <2>1, <3>3 DEF Compose, Threads
    <3>4. CASE NoRoom
      BY <3>4 DEF NoRoom, Inside, At
    <3>5. CASE NarrowSplit
      BY <3>5 DEF NarrowSplit, At
    <3>6. QED
      BY <2>4, <3>1, <3>2, <3>3, <3>4, <3>5
         DEF UINext, AddObserver, OpenWindow, SettingsBar, Prompt, DrawList, DrawGraph, RequestRepaint
  <2>5. ASSUME NEW m \in Messages, SenderNext(m) PROVE FALSE
    BY <2>1, <2>2, <2>5
       DEF SenderNext, AddMessage, ManageSendEnds, SendToPeer, NoSocket, Threads
  <2>6. ASSUME NEW w \in Workers, WorkerNext(w) PROVE FALSE
    <3>1. w \in Threads \ {UI}
      BY DEF Threads
    <3>2. ASSUME NEW goesOn, NEW section, Proceed(w, goesOn, section) PROVE FALSE
      BY <2>2, <3>1, <3>2 DEF Proceed
    <3>3. QED
      BY <2>2, <2>6, <3>1, <3>2
         DEF WorkerNext, Take, ReadToEnd, Stall, DecodeChat, CloneFails, Panic, DecodeAck,
             DropJunk, OnSocketEvent, OnAckReceived, TaskEnds, SendTaskFails
  <2>7. ASSUME NEW t \in Threads, OnEvent(t) \/ Report(t) PROVE FALSE
    <3>1. t # UI
      BY <2>1, <2>7 DEF OnEvent, Report, Inside, At, UIPlaces
    <3>2. QED
      BY <2>2, <2>7, <3>1 DEF OnEvent, Report, EndTask, Goto
  <2>8. CASE UNCHANGED pc
    BY <2>8
  <2>9. QED
    BY <2>3, <2>4, <2>5, <2>6, <2>7, <2>8 DEF Next, Step, Enter, Arrive, ListenerEnds, vars
<1>2. Types /\ PoisonConfined /\ [Next]_vars => [Running /\ ~ Running' => Excused]_vars
  BY <1>1
<1>3. QED
  BY <1>2, Ordered, PanicsAreConfined, PTL DEF Spec, WindowSurvives

----------------------------------------------------------------------------
(* Going on *)

(* The receive task of a packet is made once and run by one worker at most,   *)
(* and a worker reads from the connection of its own packet.                  *)
TakenOnce ==
    /\ \A p \in Packets \ arrived :
          Receive(p) \notin queue /\ \A w \in Workers : task[w] # Receive(p)
    /\ \A p \in Packets : \A w \in Workers : task[w] = Receive(p) =>
          Receive(p) \notin queue /\ \A v \in Workers : task[v] = Receive(p) => v = w
    /\ \A w \in Workers : pc[w] \in {"reading", "stalled"} => task[w].about \in Streams

(* The user composes a message not sent yet, and manage_send ends when it has *)
(* no copy left to spawn.                                                     *)
ManageSends ==
    /\ pc[UI] = "compose" => \E m \in Messages : pc[m] = "idle"
    /\ \A m \in Messages : pc[m] \in {"idle", "add", "done"} => todo[m] = {}

(* A task that has begun goes on, or ends. *)
TasksMove ==
    \/ /\ \A w \in Workers : task'[w] \in {task[w], Nobody}
       /\ arrived' = arrived
       /\ queue' = queue \/ \E j : j.what # "receive" /\ queue' = queue \cup {j}
       /\ \A w \in Workers : pc'[w] \in {"reading", "stalled"} =>
             pc[w] \in {"reading", "stalled"} /\ task'[w] = task[w]
    \/ \E p \in Packets : Arrive(p)
    \/ \E w \in Workers : \E j \in queue : Take(w, j)

LEMMA MovesOfTasks == Types /\ [Next]_vars => TasksMove
<1> SUFFICES ASSUME Types, [Next]_vars PROVE TasksMove
  OBVIOUS
<1> USE ThreadsAssumption DEF windowVars, lockVars, listenerVars, Threads
<1>1. /\ pc \in [Threads -> UIPlaces \cup SenderPlaces \cup WorkerPlaces]
      /\ task \in [Workers -> Tasks \cup {Nobody}]
      /\ \A w \in Workers : pc[w] = "idle" <=> task[w] = Nobody
  BY DEF Types
<1> DEFINE Busy(w) == pc[w] \in {"reading", "stalled"}
           Kept == \A w \in Workers : pc'[w] \in {"reading", "stalled"} => Busy(w) /\ task'[w] = task[w]
           Grown == queue' = queue \/ \E j : j.what # "receive" /\ queue' = queue \cup {j}
<1>2. SUFFICES ASSUME ~ \E p \in Packets : Arrive(p),
                      ~ \E w \in Workers : \E j \in queue : Take(w, j)
               PROVE  /\ \A w \in Workers : task'[w] \in {task[w], Nobody}
                      /\ arrived' = arrived /\ Grown /\ Kept
  BY DEF TasksMove
<1>3. ASSUME NEW t \in Threads, EndTask(t)
      PROVE  (\A w \in Workers : task'[w] \in {task[w], Nobody}) /\ Kept
  BY <1>1, <1>3 DEF EndTask, Goto
<1>4. ASSUME NEW t \in Threads, NEW s, Goto(t, s), UNCHANGED task,
             t \in Workers => (s = "stalled" => Busy(t)) /\ s # "reading"
      PROVE  (\A w \in Workers : task'[w] \in {task[w], Nobody}) /\ Kept
  BY <1>1, <1>4 DEF Goto
<1>5. ASSUME NEW w \in Workers, NEW goesOn, NEW section \in {"show", "mark", "notify"},
             Proceed(w, goesOn, section)
      PROVE  (\A v \in Workers : task'[v] \in {task[v], Nobody}) /\ Kept
  <2>1. w \in Threads
    OBVIOUS
  <2>2. (Goto(w, section) /\ UNCHANGED task) \/ EndTask(w)
    BY <1>5 DEF Proceed
  <2>3. QED
    BY <1>3, <1>4, <2>1, <2>2
<1>6. ASSUME NEW t \in Threads, Panic(t)
      PROVE  /\ \A w \in Workers : task'[w] \in {task[w], Nobody}
             /\ arrived' = arrived /\ Grown /\ Kept
  BY <1>3, <1>6 DEF Panic
<1>7. CASE UINext
  <2>1. UI \in Threads /\ UI \notin Workers
    OBVIOUS
  <2>2. UNCHANGED <<queue, arrived>>
    BY <1>6, <1>7, <2>1
       DEF UINext, AddObserver, OpenWindow, StartFrame, SettingsBar, NoRoom, Prompt, Compose,
           View, NarrowSplit, DrawList, DrawGraph, RequestRepaint, UISection, Panic
  <2>3. CASE NoRoom \/ NarrowSplit
    BY <1>6, <2>1, <2>3 DEF NoRoom, NarrowSplit
  <2>4. ASSUME NEW m \in Messages, Compose(m)
        PROVE  (\A w \in Workers : task'[w] \in {task[w], Nobody}) /\ Kept
    BY <1>1, <2>4 DEF Compose
  <2>5. ASSUME NEW section, NEW next, UISection(section, next)
        PROVE  (\A w \in Workers : task'[w] \in {task[w], Nobody}) /\ Kept
    BY <1>4, <2>1, <2>5 DEF UISection
  <2>6. CASE StartFrame \/ View
    BY <1>4, <2>1, <2>6 DEF StartFrame, View
  <2>7. QED
    BY <1>7, <2>2, <2>3, <2>4, <2>5, <2>6
       DEF UINext, AddObserver, OpenWindow, SettingsBar, Prompt, DrawList, DrawGraph,
           RequestRepaint
<1>8. ASSUME NEW m \in Messages, SenderNext(m)
      PROVE  /\ \A w \in Workers : task'[w] \in {task[w], Nobody}
             /\ arrived' = arrived /\ Grown /\ Kept
  <2>1. m \in Threads /\ m \notin Workers
    OBVIOUS
  <2>2. CASE AddMessage(m)
    BY <1>4, <2>1, <2>2 DEF AddMessage
  <2>3. CASE ManageSendEnds(m)
    BY <1>3, <2>1, <2>3 DEF ManageSendEnds
  <2>4. ASSUME NEW r \in Recipients, SendToPeer(m, r)
        PROVE  (\A w \in Workers : task'[w] \in {task[w], Nobody}) /\ arrived' = arrived /\ Grown /\ Kept
    <3>1. Send(m, r).what # "receive"
      BY DEF Send
    <3>2. QED
      BY <1>1, <2>4, <3>1 DEF SendToPeer
  <2>5. ASSUME NEW r \in Recipients, NoSocket(m, r)
        PROVE  (\A w \in Workers : task'[w] \in {task[w], Nobody}) /\ arrived' = arrived /\ Grown /\ Kept
    BY <1>4, <2>1, <2>5 DEF NoSocket
  <2>6. QED
    BY <1>8, <2>2, <2>3, <2>4, <2>5 DEF SenderNext
<1>9. ASSUME NEW w \in Workers, WorkerNext(w)
      PROVE  /\ \A v \in Workers : task'[v] \in {task[v], Nobody}
             /\ arrived' = arrived /\ Grown /\ Kept
  <2>1. w \in Threads
    OBVIOUS
  <2>2. CASE ReadToEnd(w) \/ Stall(w) \/ SendTaskFails(w)
    BY <1>4, <2>1, <2>2 DEF ReadToEnd, Stall, SendTaskFails, At
  <2>3. CASE DecodeChat(w)
    <3>1. SendAck(task[w].about).what # "receive"
      BY DEF SendAck
    <3>2. Grown /\ arrived' = arrived
      BY <2>3, <3>1 DEF DecodeChat
    <3>3. QED
      BY <1>5, <2>3, <3>2 DEF DecodeChat
  <2>4. CASE CloneFails(w)
    BY <1>6, <2>1, <2>4 DEF CloneFails
  <2>5. CASE DropJunk(w) \/ TaskEnds(w)
    BY <1>3, <2>1, <2>5 DEF DropJunk, TaskEnds
  <2>6. CASE DecodeAck(w)
    BY <1>5, <2>6 DEF DecodeAck
  <2>7. CASE OnSocketEvent(w) \/ OnAckReceived(w)
    BY <1>5, <2>7 DEF OnSocketEvent, OnAckReceived
  <2>8. QED
    BY <1>2, <1>9, <2>2, <2>3, <2>4, <2>5, <2>6, <2>7 DEF WorkerNext
<1>10. ASSUME NEW t \in Threads, OnEvent(t)
       PROVE  /\ \A v \in Workers : task'[v] \in {task[v], Nobody}
              /\ arrived' = arrived /\ Grown /\ Kept
  BY <1>3, <1>4, <1>10 DEF OnEvent
<1>11. ASSUME NEW t \in Threads, Report(t)
       PROVE  /\ \A v \in Workers : task'[v] \in {task[v], Nobody}
              /\ arrived' = arrived /\ Grown /\ Kept
  BY <1>4, <1>11 DEF Report
<1>12. CASE UNCHANGED vars \/ ListenerEnds \/ \E t \in Threads : Enter(t)
  BY <1>1, <1>12 DEF vars, ListenerEnds, Enter
<1>13. QED
  BY <1>2, <1>6, <1>7, <1>8, <1>9, <1>10, <1>11, <1>12 DEF Next, Step, EnterPoisoned

LEMMA TakenOnceStep == Types /\ TakenOnce /\ [Next]_vars => TakenOnce'
<1> SUFFICES ASSUME Types, TakenOnce, TasksMove PROVE TakenOnce'
  BY MovesOfTasks
<1> USE DEF TakenOnce
<1>1. \A p \in Packets : Receive(p).what = "receive" /\ Receive(p) # Nobody
  <2>1. Nobody \notin Tasks
    BY ThreadsAssumption
  <2>2. QED
    BY <2>1, TaskKinds DEF Receive
<1>2. \A p, q \in Packets : Receive(p) = Receive(q) => p = q
  BY DEF Receive
<1>3. ASSUME \A w \in Workers : task'[w] \in {task[w], Nobody},
             arrived' = arrived,
             queue' = queue \/ \E j : j.what # "receive" /\ queue' = queue \cup {j},
             \A w \in Workers : pc'[w] \in {"reading", "stalled"} =>
                 pc[w] \in {"reading", "stalled"} /\ task'[w] = task[w]
      PROVE  TakenOnce'
  <2>1. \A p \in Packets : Receive(p) \in queue' => Receive(p) \in queue
    BY <1>1, <1>3
  <2>2. \A p \in Packets : \A w \in Workers : task'[w] = Receive(p) => task[w] = Receive(p)
    BY <1>1, <1>3
  <2>3. QED
    BY <1>3, <2>1, <2>2
<1>4. ASSUME NEW p \in Packets, Arrive(p) PROVE TakenOnce'
  <2>1. p \notin arrived /\ arrived' = arrived \cup {p} /\ queue' = queue \cup {Receive(p)}
        /\ UNCHANGED <<pc, task>>
    BY <1>4 DEF Arrive
  <2>2. QED
    BY <1>2, <2>1
<1>5. ASSUME NEW w \in Workers, NEW j \in queue, Take(w, j) PROVE TakenOnce'
  <2>1. /\ queue' = queue \ {j} /\ UNCHANGED arrived
        /\ task' = [task EXCEPT ![w] = j] /\ pc' = [pc EXCEPT ![w] = FirstStep(j)]
        /\ pc[w] = "idle"
    BY <1>5 DEF Take, Goto, At, listenerVars
  <2>2. w \in Threads /\ task[w] = Nobody
        /\ task \in [Workers -> Tasks \cup {Nobody}]
        /\ pc \in [Threads -> UIPlaces \cup SenderPlaces \cup WorkerPlaces]
    BY <2>1 DEF Types, Threads
  <2>3. task'[w] = j /\ \A v \in Workers \ {w} : task'[v] = task[v] /\ pc'[v] = pc[v]
    BY <2>1, <2>2 DEF Threads
  <2>4. FirstStep(j) \in {"reading", "stalled"} => j.about \in Streams
    BY DEF FirstStep
  <2>5. pc'[w] = FirstStep(j)
    BY <2>1, <2>2
  <2>6. ASSUME NEW p \in Packets \ arrived'
        PROVE  Receive(p) \notin queue' /\ \A v \in Workers : task'[v] # Receive(p)
    BY <2>1, <2>3
  <2>7. ASSUME NEW p \in Packets, NEW v \in Workers, task'[v] = Receive(p)
        PROVE  Receive(p) \notin queue' /\ \A u \in Workers : task'[u] = Receive(p) => u = v
    BY <2>1, <2>3, <2>7
  <2>8. ASSUME NEW v \in Workers, pc'[v] \in {"reading", "stalled"}
        PROVE  task'[v].about \in Streams
    BY <2>3, <2>4, <2>5, <2>8
  <2>9. QED
    BY <2>6, <2>7, <2>8
<1>6. QED
  BY <1>3, <1>4, <1>5 DEF TasksMove

LEMMA ManageSendsStep ==
    Types /\ PoisonConfined /\ ManageSends /\ [Next]_vars => ManageSends'
<1> SUFFICES ASSUME Types, PoisonConfined, ManageSends, [Next]_vars PROVE ManageSends'
  OBVIOUS
<1> USE ThreadsAssumption DEF ManageSends, windowVars, lockVars, listenerVars
<1>1. /\ UI \in Threads /\ Messages \subseteq Threads /\ Workers \subseteq Threads
      /\ pc \in [Threads -> UIPlaces \cup SenderPlaces \cup WorkerPlaces]
      /\ todo \in [Messages -> SUBSET Recipients]
      /\ \A m \in Messages : pc[m] \in SenderPlaces
  BY DEF Types, Threads
<1>2. CASE UNCHANGED <<pc, todo>>
  BY <1>2
<1>3. ASSUME NEW w \in Workers, NEW s, Goto(w, s), UNCHANGED todo PROVE ManageSends'
  BY <1>1, <1>3 DEF Goto
<1>4. ASSUME NEW w \in Workers, EndTask(w), UNCHANGED todo PROVE ManageSends'
  BY <1>3, <1>4 DEF EndTask
<1>5. ASSUME NEW s, Goto(UI, s), UNCHANGED todo,
             s = "compose" => \E m \in Messages : pc[m] = "idle"
      PROVE  ManageSends'
  BY <1>1, <1>5 DEF Goto
<1>6. ASSUME Panic(UI) PROVE ManageSends'
  BY <1>5, <1>6 DEF Panic, EndTask
<1>7. ASSUME NEW m \in Messages, NEW s, Goto(m, s), UNCHANGED todo, pc[m] # "idle",
             s \notin {"idle", "add"}, s = "done" => todo[m] = {}
      PROVE  ManageSends'
  BY <1>1, <1>7 DEF Goto
<1>8. ASSUME NEW t \in Threads, EnterPoisoned(t) PROVE ManageSends'
  <2>1. LockOf(pc[t]) = "controller" /\ pc[t] \in Sections
    BY <1>8 DEF EnterPoisoned, PoisonConfined
  <2>2. pc[t] \in ControllerSections
    BY <2>1 DEF LockOf, Sections, ControllerSections, ModelSections, HandlerSections
  <2>3. t \notin Messages
    BY <1>1, <2>2 DEF ControllerSections, SenderPlaces
  <2>4. QED
    BY <1>4, <1>6, <1>8, <2>3 DEF EnterPoisoned, Panic, Threads
<1>9. ASSUME NEW t \in Threads, OnEvent(t) PROVE ManageSends'
  <2>1. t \in Workers \/ t \in Messages
    BY <1>9 DEF OnEvent, Inside, At, Types, UIPlaces, Threads
  <2>2. QED
    BY <1>4, <1>7, <1>9, <2>1 DEF OnEvent, Inside, At
<1>10. ASSUME NEW t \in Threads, Report(t) PROVE ManageSends'
  <2>1. t \in Workers \/ t \in Messages
    BY <1>10 DEF Report, Inside, At, Types, UIPlaces, Threads
  <2>2. QED
    BY <1>3, <1>7, <1>10, <2>1 DEF Report, Inside, At
<1>11. CASE UINext
  <2>1. ASSUME NEW m \in Messages, Compose(m) PROVE ManageSends'
    BY <1>1, <2>1 DEF Compose
  <2>2. CASE NoRoom \/ NarrowSplit
    BY <1>6, <2>2 DEF NoRoom, NarrowSplit
  <2>3. CASE StartFrame \/ View
    BY <1>5, <2>3 DEF StartFrame, View
  <2>4. ASSUME NEW section,
               NEW next \in {"open", "idle", "prompt", "view", "compose", "graph", "repaint"},
               UISection(section, next),
               next = "compose" => \E m \in Messages : pc[m] = "idle"
        PROVE  ManageSends'
    BY <1>5, <2>4 DEF UISection
  <2>5. QED
    BY <1>11, <2>1, <2>2, <2>3, <2>4
       DEF UINext, AddObserver, OpenWindow, SettingsBar, Prompt, DrawList, DrawGraph,
           RequestRepaint
<1>12. ASSUME NEW m \in Messages, SenderNext(m) PROVE ManageSends'
  <2>1. CASE AddMessage(m)
    BY <1>1, <2>1 DEF AddMessage, Goto, Inside, At
  <2>2. CASE ManageSendEnds(m)
    BY <1>7, <2>2 DEF ManageSendEnds, EndTask, At
  <2>3. ASSUME NEW r \in Recipients, SendToPeer(m, r) \/ NoSocket(m, r) PROVE ManageSends'
    <3>1. todo' = [todo EXCEPT ![m] = @ \ {r}] /\ pc[m] = "copies"
      BY <2>3 DEF SendToPeer, NoSocket, At
    <3>2. UNCHANGED pc \/ pc' = [pc EXCEPT ![m] = "report"]
      BY <2>3 DEF SendToPeer, NoSocket, Goto
    <3>3. QED
      BY <1>1, <3>1, <3>2
  <2>4. QED
    BY <1>12, <2>1, <2>2, <2>3 DEF SenderNext
<1>13. ASSUME NEW w \in Workers, WorkerNext(w) PROVE ManageSends'
  <2>1. CASE CloneFails(w)
    BY <1>4, <2>1 DEF CloneFails, Panic
  <2>2. CASE ~ CloneFails(w)
    BY <1>3, <1>4, <1>13, <2>2
       DEF WorkerNext, Take, ReadToEnd, Stall, DecodeChat, DecodeAck, DropJunk, OnSocketEvent,
           OnAckReceived, TaskEnds, SendTaskFails, Proceed
  <2>3. QED
    BY <2>1, <2>2
<1>14. QED
  BY <1>2, <1>8, <1>9, <1>10, <1>11, <1>12, <1>13
     DEF Next, Step, Enter, Arrive, ListenerEnds, vars

LEMMA Alert == Spec => [](Types /\ LockOrder /\ PoisonConfined /\ TakenOnce /\ ManageSends)
<1>1. Init => TakenOnce
  BY ThreadsAssumption, TaskKinds DEF Init, TakenOnce, Threads
<1>2. Init => ManageSends
  BY ThreadsAssumption DEF Init, ManageSends, Threads
<1>3. QED
  BY <1>1, <1>2, Ordered, PanicsAreConfined, TakenOnceStep, ManageSendsStep, PTL DEF Spec

(* The owner of a lock is inside its section and leaves, or waits for a lock  *)
(* that comes later, whose owner in turn does.                                *)
LEMMA OwnersMove ==
    ASSUME Types, LockOrder, ManageSends, Running, NEW t \in Threads, pc[t] \in Sections
    PROVE  \E u \in Threads : pc[u] \in Sections /\ CanStep(u)
<1> USE DEF LockOrder, ControllerSections, ModelSections, HandlerSections
<1> DEFINE Goal == \E u \in Threads : pc[u] \in Sections /\ CanStep(u)
<1>1. owner \in [Locks -> Threads \cup {Nobody}] /\ Nobody \notin Threads
  BY ThreadsAssumption DEF Types
<1>2. ASSUME NEW u \in Threads, pc[u] \in Sections, owner[LockOf(pc[u])] \in {Nobody, u} PROVE Goal
  <2>1. pc[u] = "compose" => u = UI
    BY DEF Types, UIPlaces, SenderPlaces, WorkerPlaces, Threads
  <2>2. CanStep(u)
    BY <1>2, <2>1 DEF CanStep, ManageSends, Inside, At
  <2>3. QED
    BY <1>2, <2>2
<1>3. ASSUME NEW u \in Threads, LockOf(pc[u]) = "handler", pc[u] \in Sections PROVE Goal
  <2>1. CASE owner["handler"] = Nobody
    BY <1>2, <1>3, <2>1
  <2>2. CASE owner["handler"] \in Threads
    <3>1. PICK o \in Threads : owner["handler"] = o
      BY <2>2
    <3>2. pc[o] \in HandlerSections
      BY <3>1
    <3>3. LockOf(pc[o]) = "handler" /\ pc[o] \in Sections
      BY <3>2 DEF LockOf, Sections
    <3>4. QED
      BY <1>2, <3>1, <3>3
  <2>3. QED
    BY <1>1, <2>1, <2>2 DEF Locks
<1>4. ASSUME NEW u \in Threads, LockOf(pc[u]) = "model", pc[u] \in Sections PROVE Goal
  <2>1. CASE owner["model"] = Nobody
    BY <1>2, <1>4, <2>1
  <2>2. CASE owner["model"] \in Threads
    <3>1. PICK o \in Threads : owner["model"] = o
      BY <2>2
    <3>2. pc[o] \in ModelSections \cup {"notify"}
      BY <3>1
    <3>3. LockOf(pc[o]) \in {"model", "handler"} /\ pc[o] \in Sections
      BY <3>2 DEF LockOf, Sections
    <3>4. QED
      BY <1>2, <1>3, <3>1, <3>3
  <2>3. QED
    BY <1>1, <2>1, <2>2 DEF Locks
<1>5. ASSUME NEW u \in Threads, LockOf(pc[u]) = "controller", pc[u] \in Sections PROVE Goal
  <2>1. CASE owner["controller"] = Nobody
    BY <1>2, <1>5, <2>1
  <2>2. CASE owner["controller"] \in Threads
    <3>1. PICK o \in Threads : owner["controller"] = o
      BY <2>2
    <3>2. pc[o] \in ControllerSections \cup {"show", "mark", "notify"}
      BY <3>1
    <3>3. LockOf(pc[o]) \in {"controller", "model", "handler"} /\ pc[o] \in Sections
      BY <3>2 DEF LockOf, Sections
    <3>4. QED
      BY <1>2, <1>3, <1>4, <3>1, <3>3
  <2>3. QED
    BY <1>1, <2>1, <2>2 DEF Locks
<1>6. LockOf(pc[t]) \in {"controller", "model", "handler"}
  BY DEF LockOf, Sections
<1>7. QED
  BY <1>3, <1>4, <1>5, <1>6

(* No wait for the controller, the model or the handler is without an end:    *)
(* some thread that has one of them, or gets one, has a step to take, so the  *)
(* locks move on (app.rs:97, socket.rs:317, message_prompt.rs:140).           *)
THEOREM LocksMoveOn == Spec => []LocksMove
<1>1. Types /\ LockOrder /\ ManageSends => LocksMove
  BY OwnersMove DEF LocksMove, Waiting
<1>2. QED
  BY <1>1, Alert, PTL

(* Stalled workers read from different connections.                           *)
LEMMA StalledApart ==
    ASSUME Types, TakenOnce, IsFiniteSet(Streams), \A w \in Workers : pc[w] = "stalled"
    PROVE  Cardinality(Workers) <= Cardinality(Streams)
<1> DEFINE f == [w \in Workers |-> task[w].about]
<1>1. ASSUME NEW w \in Workers
      PROVE  task[w].about \in Streams /\ task[w] = Receive(task[w].about)
  <2>1. task[w] \in Tasks /\ task[w].what = "receive" /\ task[w].about \in Streams
    BY ThreadsAssumption DEF Types, TakenOnce
  <2>2. task[w] \in [what : {"receive", "ack"}, about : Packets]
    BY <2>1 DEF Tasks
  <2>3. QED
    BY <2>1, <2>2 DEF Receive
<1>2. f \in [Workers -> Streams]
  BY <1>1
<1>3. ASSUME NEW v \in Workers, NEW w \in Workers, f[v] = f[w] PROVE v = w
  <2>1. task[v] = task[w]
    BY <1>1, <1>3
  <2>2. task[w].about \in Packets
    BY <1>1, PacketsAssumption
  <2>3. QED
    BY <1>1, <2>1, <2>2 DEF TakenOnce
<1>4. f \in Injection(Workers, Streams)
  BY <1>2, <1>3, Fun_IsInj
<1>5. QED
  BY <1>4, FS_Injection

(* When no thread has anything left to do, nothing was left undone: packets   *)
(* are dealt with, but on connections whose sender never closes them, and the *)
(* copies of every message were handed to the tasks that sent them.  It is    *)
(* what TasksEnd says of the state it leads to.                               *)
THEOREM RestIsDone ==
    IsFiniteSet(Workers) /\ IsFiniteSet(Streams) => (Spec => []RestMeansDone)
<1> SUFFICES ASSUME IsFiniteSet(Workers), IsFiniteSet(Streams) PROVE Spec => []RestMeansDone
  OBVIOUS
<1>1. ASSUME Types, LockOrder, TakenOnce, ManageSends, AtRest,
             Cardinality(Streams) < Cardinality(Workers)
      PROVE  /\ queue = {}
             /\ \A w \in Workers :
                   pc[w] = "idle" \/ (pc[w] = "stalled" /\ task[w].about \in Streams)
             /\ \A m \in Messages : pc[m] \in {"idle", "done"} /\ todo[m] = {}
  <2> USE <1>1, ThreadsAssumption
  <2>1. Running /\ pc[UI] = "idle" /\ \A t \in Threads \ {UI} : ~ CanStep(t)
    BY DEF AtRest, At
  <2>2. \A t \in Threads : pc[t] \notin Sections
    BY <2>1, OwnersMove DEF Sections, ControllerSections, ModelSections, HandlerSections
  <2>3. ASSUME NEW w \in Workers
        PROVE  /\ pc[w] \in {"idle", "stalled"}
               /\ pc[w] = "idle" => queue = {}
    <3>1. w \in Threads \ {UI}
      BY DEF Threads
    <3>2. pc[w] \in WorkerPlaces
      BY DEF Types
    <3>3. QED
      BY <2>1, <2>2, <3>1, <3>2
         DEF WorkerPlaces, CanStep, Sections, ControllerSections, ModelSections, HandlerSections
  <2>4. ASSUME NEW m \in Messages PROVE pc[m] \in {"idle", "done"}
    <3>1. m \in Threads \ {UI}
      BY DEF Threads
    <3>2. pc[m] \in SenderPlaces
      BY DEF Types
    <3>3. QED
      BY <2>1, <2>2, <3>1, <3>2
         DEF SenderPlaces, CanStep, Sections, ControllerSections, ModelSections, HandlerSections
  <2>5. Cardinality(Workers) \in Nat /\ Cardinality(Streams) \in Nat
    BY FS_CardinalityType
  <2>6. ~ \A w \in Workers : pc[w] = "stalled"
    BY <2>5, StalledApart
  <2>7. PICK w \in Workers : pc[w] = "idle"
    BY <2>3, <2>6
  <2>8. queue = {}
    BY <2>3, <2>7
  <2>9. QED
    BY <2>3, <2>4, <2>8 DEF ManageSends, TakenOnce
<1>2. Types /\ LockOrder /\ TakenOnce /\ ManageSends => RestMeansDone
  BY <1>1 DEF RestMeansDone
<1>3. QED
  BY <1>2, Alert, PTL

----------------------------------------------------------------------------
(* How far a thread is in its frame, its task or its copy of a message. *)
Place(s) ==
    CASE s \in {"observe", "settings", "add", "reading", "sending"} -> 1
      [] s \in {"open", "prompt", "decode"} -> 2
      [] s \in {"compose", "show", "mark"} -> 3
      [] s \in {"view", "report"} -> 4
      [] s \in {"list", "notify"} -> 5
      [] s \in {"graph", "copies"} -> 6
      [] s = "repaint" -> 7
      [] OTHER -> 0

Holds(t) == pc[t] \in Sections /\ owner[LockOf(pc[t])] = t

(* In the place, and in its section of it. *)
Rank(t) == 2 * Place(pc[t]) + IF Holds(t) THEN 1 ELSE 0

(* The thread begins or ends its work, goes on in it, or is rid of a copy of  *)
(* its message.                                                               *)
Advances(t) ==
    \/ pc'[t] \in {"idle", "ended", "done", "stalled"}
    \/ pc[t] = "idle"
    \/ t \in Messages /\ (pc[t] = "add" \/ (todo'[t] \subseteq todo[t] /\ todo'[t] # todo[t]))
    \/ Rank(t)' > Rank(t) /\ (t \in Messages => todo'[t] = todo[t])

Unmoved(t) ==
    /\ pc'[t] = pc[t]
    /\ \A l \in Locks : owner'[l] = t <=> owner[l] = t
    /\ t \in Messages => todo'[t] = todo[t]
    /\ t \in Workers => task'[t] = task[t]

EachAdvances ==
    \A t \in Threads :
        /\ Rank(t) \in 0 .. 15
        /\ Advances(t) \/ Unmoved(t)
        /\ Enter(t) \/ Step(t) => Advances(t)

LEMMA FurtherOn ==
    ASSUME NEW t, Place(pc'[t]) > Place(pc[t]), t \in Messages => todo'[t] = todo[t]
    PROVE  Advances(t)
<1>1. Place(pc[t]) \in 0 .. 7 /\ Place(pc'[t]) \in 0 .. 7
  BY DEF Place
<1>2. Place(pc[t])' = Place(pc'[t])
  BY DEF Place
<1> DEFINE a == IF Holds(t) THEN 1 ELSE 0
           b == IF Holds(t)' THEN 1 ELSE 0
<1>3. a \in 0 .. 1 /\ b \in 0 .. 1
  OBVIOUS
<1>4. Rank(t) = 2 * Place(pc[t]) + a /\ Rank(t)' = 2 * Place(pc'[t]) + b
  BY <1>2 DEF Rank
<1> HIDE DEF a, b
<1>5. Rank(t)' > Rank(t)
  BY <1>1, <1>3, <1>4
<1>6. QED
  BY <1>5 DEF Advances

(* What a thread does to the others: nothing, but for the first step of a    *)
(* message the user sends.                                                   *)
LEMMA OthersUnmoved ==
    ASSUME Types, NEW t \in Threads, Enter(t) \/ Step(t), NEW u \in Threads \ {t}
    PROVE  Unmoved(u) \/ pc[u] = "idle"
<1> USE ThreadsAssumption DEF lockVars, windowVars, listenerVars
<1>1. /\ pc \in [Threads -> UIPlaces \cup SenderPlaces \cup WorkerPlaces]
      /\ owner \in [Locks -> Threads \cup {Nobody}] /\ Nobody \notin Threads
      /\ todo \in [Messages -> SUBSET Recipients] /\ task \in [Workers -> Tasks \cup {Nobody}]
  BY DEF Types
<1> DEFINE Pc == pc'[u] = pc[u]
           Own == \A l \in Locks : owner'[l] = u <=> owner[l] = u
           Rest == /\ u \in Messages => todo'[u] = todo[u]
                   /\ u \in Workers => task'[u] = task[u]
<1>2. SUFFICES (Pc /\ Own /\ Rest) \/ pc[u] = "idle"
  BY DEF Unmoved
<1>3. \A s : Goto(t, s) => Pc
  BY <1>1 DEF Goto
<1>4. LeaveAll(t) => Own
  BY <1>1 DEF LeaveAll
<1>5. EndTask(t) => Pc /\ (u \in Workers => task'[u] = task[u])
  BY <1>1, <1>3 DEF EndTask
<1>6. UNCHANGED owner => Own
  BY <1>1
<1>7. UNCHANGED todo => (u \in Messages => todo'[u] = todo[u])
  OBVIOUS
<1>8. UNCHANGED task => (u \in Workers => task'[u] = task[u])
  OBVIOUS
<1>9. Panic(t) => Pc /\ Own /\ Rest
  BY <1>4, <1>5, <1>7 DEF Panic
<1> HIDE DEF Pc, Own
<1>10. CASE Enter(t)
  <2>1. Own
    BY <1>1, <1>10 DEF Enter, Own
  <2>2. Pc
    BY <1>10 DEF Enter, Pc
  <2>3. QED
    BY <1>10, <2>1, <2>2 DEF Enter
<1>11. CASE EnterPoisoned(t) \/ OnEvent(t) \/ Report(t)
  BY <1>3, <1>4, <1>5, <1>6, <1>7, <1>8, <1>9, <1>11 DEF EnterPoisoned, OnEvent, Report
<1>12. CASE t = UI /\ UINext
  <2>1. ASSUME NEW section, NEW next, UISection(section, next) PROVE Pc /\ Own /\ Rest
    BY <1>3, <1>4, <1>12, <2>1 DEF UISection
  <2>2. ASSUME NEW m \in Messages, Compose(m) PROVE (Pc /\ Own /\ Rest) \/ pc[u] = "idle"
    <3>1. pc[m] = "idle" /\ LeaveAll(t) /\ UNCHANGED <<todo, task>>
          /\ pc' = [pc EXCEPT ![UI] = "view", ![m] = "add"]
      BY <1>12, <2>2 DEF Compose
    <3>2. CASE u = m
      BY <3>1, <3>2
    <3>3. CASE u # m
      <4>1. Pc
        BY <1>1, <1>12, <3>1, <3>3 DEF Pc
      <4>2. QED
        BY <1>4, <3>1, <4>1
    <3>4. QED
      BY <3>2, <3>3
  <2>3. CASE StartFrame \/ View
    BY <1>3, <1>6, <1>7, <1>8, <1>12, <2>3 DEF StartFrame, View
  <2>4. CASE NoRoom \/ NarrowSplit
    BY <1>9, <1>12, <2>4 DEF NoRoom, NarrowSplit
  <2>5. QED
    BY <1>12, <2>1, <2>2, <2>3, <2>4
       DEF UINext, AddObserver, OpenWindow, SettingsBar, Prompt, DrawList, DrawGraph,
           RequestRepaint
<1>13. CASE t \in Messages /\ SenderNext(t)
  <2>1. UNCHANGED owner /\ (todo' = todo \/ \E x : todo' = [todo EXCEPT ![t] = x])
        /\ (task' = task \/ EndTask(t))
    BY <1>13 DEF SenderNext, AddMessage, ManageSendEnds, SendToPeer, NoSocket
  <2>2. Pc
    <3>1. UNCHANGED pc \/ EndTask(t) \/ \E s : Goto(t, s)
      BY <1>13 DEF SenderNext, AddMessage, ManageSendEnds, SendToPeer, NoSocket
    <3>2. QED
      BY <1>3, <1>5, <3>1 DEF Pc
  <2>3. u \in Messages => todo'[u] = todo[u]
    BY <1>1, <2>1
  <2>4. QED
    BY <1>5, <1>6, <1>8, <2>1, <2>2, <2>3
<1>14. CASE t \in Workers /\ WorkerNext(t)
  <2>1. ASSUME NEW goesOn, NEW section, Proceed(t, goesOn, section)
        PROVE  Pc /\ Own /\ (u \in Workers => task'[u] = task[u])
    BY <1>3, <1>4, <1>5, <1>6, <1>8, <2>1 DEF Proceed
  <2>2. ASSUME NEW j \in queue, Take(t, j) PROVE Pc /\ Own /\ Rest
    <3>1. u \in Workers => task'[u] = task[u]
      BY <1>1, <2>2 DEF Take
    <3>2. QED
      BY <1>3, <1>6, <1>7, <2>2, <3>1 DEF Take
  <2>3. CASE CloneFails(t)
    BY <1>9, <2>3 DEF CloneFails
  <2>4. CASE ReadToEnd(t) \/ Stall(t) \/ SendTaskFails(t)
    BY <1>3, <1>6, <1>7, <1>8, <2>4 DEF ReadToEnd, Stall, SendTaskFails
  <2>5. CASE DropJunk(t) \/ TaskEnds(t)
    BY <1>4, <1>5, <1>6, <1>7, <2>5 DEF DropJunk, TaskEnds
  <2>6. CASE DecodeChat(t) \/ DecodeAck(t) \/ OnSocketEvent(t) \/ OnAckReceived(t)
    BY <1>7, <2>1, <2>6 DEF DecodeChat, DecodeAck, OnSocketEvent, OnAckReceived
  <2>7. QED
    BY <1>14, <2>2, <2>3, <2>4, <2>5, <2>6 DEF WorkerNext
<1>15. QED
  BY <1>10, <1>11, <1>12, <1>13, <1>14 DEF Step

LEMMA StepAdvances ==
    ASSUME Types, NEW t \in Threads, Enter(t) \/ Step(t)
    PROVE  Advances(t)
<1> USE ThreadsAssumption DEF lockVars, windowVars, listenerVars
<1>1. /\ pc \in [Threads -> UIPlaces \cup SenderPlaces \cup WorkerPlaces]
      /\ owner \in [Locks -> Threads \cup {Nobody}] /\ Nobody \notin Threads
      /\ todo \in [Messages -> SUBSET Recipients] /\ task \in [Workers -> Tasks \cup {Nobody}]
  BY DEF Types
<1>2. \A s : Goto(t, s) => pc'[t] = s
  BY <1>1 DEF Goto
<1>3. EndTask(t) => Advances(t)
  BY <1>2 DEF EndTask, Advances
<1>4. ASSUME NEW s, Goto(t, s), Place(s) > Place(pc[t]), t \in Messages => todo'[t] = todo[t]
      PROVE  Advances(t)
  BY <1>2, <1>4, FurtherOn
<1>5. ASSUME NEW s \in {"idle", "ended", "done", "stalled"}, Goto(t, s) PROVE Advances(t)
  BY <1>2, <1>5 DEF Advances
<1>6. CASE Enter(t)
  <2>1. LockOf(pc[t]) \in Locks /\ pc[t] \in Sections /\ pc' = pc /\ todo' = todo
        /\ owner[LockOf(pc[t])] = Nobody /\ owner' = [owner EXCEPT ![LockOf(pc[t])] = t]
    BY <1>6 DEF Enter, LockOf, Sections, Locks
  <2>2. ~ Holds(t)
    BY <1>1, <2>1 DEF Holds
  <2>3. Holds(t)'
    BY <1>1, <2>1 DEF Holds
  <2>4. Place(pc[t]) \in 0 .. 7 /\ Place(pc[t])' = Place(pc[t])
    BY <2>1 DEF Place
  <2>5. Rank(t)' > Rank(t)
    BY <2>2, <2>3, <2>4 DEF Rank
  <2>6. QED
    BY <2>1, <2>5 DEF Advances
<1>7. CASE EnterPoisoned(t)
  BY <1>3, <1>7 DEF EnterPoisoned, Panic
<1>8. CASE OnEvent(t)
  <2>1. CASE t \in Messages
    <3>1. Goto(t, "copies") /\ pc[t] = "notify" /\ todo' = todo
      BY <1>8, <2>1 DEF OnEvent, Inside, At
    <3>2. Place("copies") > Place("notify")
      BY DEF Place
    <3>3. QED
      BY <1>4, <3>1, <3>2
  <2>2. CASE t \notin Messages
    BY <1>3, <1>8, <2>2 DEF OnEvent
  <2>3. QED
    BY <2>1, <2>2
<1>9. CASE Report(t)
  <2>1. Goto(t, "notify") /\ pc[t] = "report" /\ todo' = todo
    BY <1>9 DEF Report, Inside, At
  <2>2. Place("notify") > Place("report")
    BY DEF Place
  <2>3. QED
    BY <1>4, <2>1, <2>2
<1>10. CASE t = UI /\ UINext
  <2>1. t \notin Messages
    BY <1>10
  <2>2. ASSUME NEW section, NEW next, UISection(section, next),
               next = "idle" \/ Place(next) > Place(section)
        PROVE  Advances(t)
    BY <1>4, <1>5, <1>10, <2>1, <2>2 DEF UISection, Inside, At
  <2>3. /\ Place("open") > Place("observe") /\ Place("prompt") > Place("settings")
        /\ Place("view") > Place("prompt") /\ Place("compose") > Place("prompt")
        /\ Place("view") > Place("compose") /\ Place("graph") > Place("view")
        /\ Place("list") > Place("view") /\ Place("graph") > Place("list")
        /\ Place("repaint") > Place("graph")
    BY DEF Place
  <2>4. ASSUME NEW m \in Messages, Compose(m) PROVE Advances(t)
    <3>1. pc[t] = "compose" /\ pc'[t] = "view"
      BY <1>1, <1>10, <2>4 DEF Compose, Inside, At, Threads
    <3>2. QED
      BY <2>1, <2>3, <3>1, FurtherOn
  <2>5. CASE StartFrame
    BY <2>5, <1>10 DEF StartFrame, At, Advances
  <2>6. CASE View
    <3>1. pc[t] = "view" /\ (Goto(t, "idle") \/ Goto(t, "graph") \/ Goto(t, "list"))
      BY <1>10, <2>6 DEF View, At
    <3>2. QED
      BY <1>4, <1>5, <2>1, <2>3, <3>1
  <2>7. CASE NoRoom \/ NarrowSplit
    BY <1>3, <1>10, <2>7 DEF NoRoom, NarrowSplit, Panic
  <2>8. CASE AddObserver \/ OpenWindow \/ SettingsBar \/ Prompt
    BY <2>2, <2>3, <2>8 DEF AddObserver, OpenWindow, SettingsBar, Prompt
  <2>9. CASE DrawList \/ DrawGraph \/ RequestRepaint
    BY <2>2, <2>3, <2>9 DEF DrawList, DrawGraph, RequestRepaint
  <2>10. QED
    BY <1>10, <2>4, <2>5, <2>6, <2>7, <2>8, <2>9 DEF UINext
<1>11. CASE t \in Messages /\ SenderNext(t)
  <2>1. CASE AddMessage(t)
    BY <1>11, <2>1 DEF AddMessage, Inside, At, Advances
  <2>2. CASE ManageSendEnds(t)
    BY <1>3, <2>2 DEF ManageSendEnds
  <2>3. ASSUME NEW r \in Recipients, SendToPeer(t, r) \/ NoSocket(t, r) PROVE Advances(t)
    <3>1. todo'[t] = todo[t] \ {r} /\ r \in todo[t]
      BY <1>1, <1>11, <2>3 DEF SendToPeer, NoSocket
    <3>2. QED
      BY <1>11, <3>1 DEF Advances
  <2>4. QED
    BY <1>11, <2>1, <2>2, <2>3 DEF SenderNext
<1>12. CASE t \in Workers /\ WorkerNext(t)
  <2>1. t \notin Messages
    BY <1>12
  <2>2. /\ Place("decode") > Place("reading") /\ Place("show") > Place("decode")
        /\ Place("mark") > Place("decode") /\ Place("notify") > Place("show")
        /\ Place("notify") > Place("mark") /\ Place("report") > Place("sending")
    BY DEF Place
  <2>3. ASSUME NEW goesOn, NEW section, Proceed(t, goesOn, section), Place(section) > Place(pc[t])
        PROVE  Advances(t)
    BY <1>3, <1>4, <2>1, <2>3 DEF Proceed
  <2>4. CASE \E j \in queue : Take(t, j)
    BY <2>4 DEF Take, At, Advances
  <2>5. CASE ReadToEnd(t)
    BY <1>4, <2>1, <2>2, <2>5 DEF ReadToEnd, At
  <2>6. CASE Stall(t)
    BY <1>5, <2>6 DEF Stall
  <2>7. CASE DecodeChat(t) \/ DecodeAck(t)
    BY <2>2, <2>3, <2>7 DEF DecodeChat, DecodeAck, Inside, At
  <2>8. CASE OnSocketEvent(t) \/ OnAckReceived(t)
    BY <2>2, <2>3, <2>8 DEF OnSocketEvent, OnAckReceived, Inside, At
  <2>9. CASE CloneFails(t) \/ DropJunk(t) \/ TaskEnds(t)
    BY <1>3, <2>9 DEF CloneFails, Panic, DropJunk, TaskEnds
  <2>10. CASE SendTaskFails(t)
    BY <1>4, <2>1, <2>2, <2>10 DEF SendTaskFails, At
  <2>11. QED
    BY <1>12, <2>4, <2>5, <2>6, <2>7, <2>8, <2>9, <2>10 DEF WorkerNext
<1>13. QED
  BY <1>6, <1>7, <1>8, <1>9, <1>10, <1>11, <1>12 DEF Step

(* Frames, tasks and manage_send go one way: every step of a thread takes it  *)
(* on to its end, or to one copy less, and no other thread takes it back or   *)
(* takes a lock away from it (app.rs:234, socket.rs:317,                      *)
(* message_prompt.rs:91).  With LocksMove this is what FramesKeepComing and   *)
(* TasksEnd rest on: at most fifteen steps between two frames, two tasks, or  *)
(* two copies.                                                                *)
THEOREM ThreadsAdvance == Spec => [][EachAdvances]_vars
<1>1. ASSUME Types, [Next]_vars, NEW t \in Threads
      PROVE  /\ Rank(t) \in 0 .. 15
             /\ Advances(t) \/ Unmoved(t)
             /\ Enter(t) \/ Step(t) => Advances(t)
  <2>1. Rank(t) \in 0 .. 15
    <3>1. Place(pc[t]) \in 0 .. 7
      BY DEF Place
    <3>2. QED
      BY <3>1 DEF Rank
  <2>2. Enter(t) \/ Step(t) => Advances(t)
    BY <1>1, StepAdvances
  <2>3. Advances(t) \/ Unmoved(t)
    <3>1. CASE \E u \in Threads : Enter(u) \/ Step(u)
      <4>1. PICK u \in Threads : Enter(u) \/ Step(u)
        BY <3>1
      <4>2. CASE u = t
        BY <2>2, <4>1, <4>2
      <4>3. CASE u # t
        <5>1. Unmoved(t) \/ pc[t] = "idle"
          BY <1>1, <4>1, <4>3, OthersUnmoved
        <5>2. QED
          BY <5>1 DEF Advances
      <4>4. QED
        BY <4>2, <4>3
    <3>2. CASE ~ \E u \in Threads : Enter(u) \/ Step(u)
      <4>1. UNCHANGED <<pc, owner, todo, task>>
        BY <1>1, <3>2 DEF Next, Arrive, ListenerEnds, vars, lockVars
      <4>2. QED
        BY <4>1 DEF Unmoved
    <3>3. QED
      BY <3>1, <3>2
  <2>4. QED
    BY <2>1, <2>2, <2>3
<1>2. Types /\ [Next]_vars => EachAdvances
  BY <1>1 DEF EachAdvances
<1>3. QED
  BY <1>2, Ordered, PTL DEF Spec
=============================================================================
