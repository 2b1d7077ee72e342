----------------------------- MODULE NodeThreads -----------------------------
(***************************************************************************)
(* The threads of one DTChat process and the three locks they share: the   *)
(* UI thread that draws frames (layout/), the workers of TOKIO_RUNTIME     *)
(* that run the receive, send and ACK tasks (utils/socket.rs), and a       *)
(* thread of its blocking pool for each manage_send (message_prompt.rs).   *)
(*                                                                         *)
(* A receive task locks the controller, under it the model, and under that *)
(* the event handler that observes the model.  A panic in a task leaves    *)
(* the process running with the locks of the task poisoned; a panic of the *)
(* UI thread ends the process.                                             *)
(*                                                                         *)
(* A thread whose pc names a section is inside it when it owns the lock of *)
(* that section, and waits for that lock otherwise.                        *)
(***************************************************************************)
EXTENDS Naturals, FiniteSets

CONSTANTS
    UI,             \* the thread that runs main and the frames of eframe
    Workers,        \* of the tokio runtime
    Messages,       \* the user writes; each has its manage_send thread
    Recipients,     \* of every message
    Packets,        \* the network brings: each may be a message, an ACK or junk
    Streams,        \* packets that come over a TCP connection
    Descriptors,    \* file descriptors left for connections and sockets
    Pages,          \* the pages and views of rooms the user turns to
    Nobody          \* owns a free lock; no task

Threads == {UI} \cup Workers \cup Messages

Tasks ==
    [what : {"receive", "ack"}, about : Packets]
        \cup [what : {"send"}, about : Messages \X Recipients]

ASSUME ThreadsAssumption ==
    /\ UI \notin Workers \cup Messages /\ Workers \cap Messages = {}
    /\ Nobody \notin Threads \cup Tasks
ASSUME PacketsAssumption == Streams \subseteq Packets
ASSUME DescriptorsAssumption == Descriptors \in Nat
ASSUME PagesAssumption ==
    "Split" \in Pages /\ Pages \subseteq {"Contacts", "Table", "Graph", "List", "Split"}

Locks == {"controller", "model", "handler"}

ControllerSections == {"observe", "decode"}
ModelSections ==
    {"open", "settings", "compose", "list", "graph", "add", "show", "mark", "report"}
HandlerSections == {"prompt", "repaint", "notify"}
Sections == ControllerSections \cup ModelSections \cup HandlerSections

LockOf(section) ==
    CASE section \in ControllerSections -> "controller"
      [] section \in ModelSections -> "model"
      [] section \in HandlerSections -> "handler"

Receive(p) == [what |-> "receive", about |-> p]
SendAck(p) == [what |-> "ack", about |-> p]
Send(m, r) == [what |-> "send", about |-> <<m, r>>]

VARIABLES
    pc,             \* [Threads -> section or activity]
    owner,          \* [Locks -> Threads \cup {Nobody}]
    poisoned,       \* locks a thread panicked under
    page,           \* the user has selected
    hasRoom,        \* the configuration lists a room
    queue,          \* spawned tasks no worker has taken
    task,           \* [Workers -> the task it runs]
    arrived,        \* packets the listeners have read or accepted
    accepting,      \* the TCP listener has not ended
    todo            \* [Messages -> SUBSET Recipients], copies still to spawn

lockVars == <<owner, poisoned>>
windowVars == <<page, hasRoom>>
listenerVars == <<arrived, accepting>>
vars == <<pc, lockVars, windowVars, queue, task, listenerVars, todo>>

----------------------------------------------------------------------------
Running == pc[UI] # "ended"

At(t, s) == Running /\ pc[t] = s

Inside(t, section) == At(t, section) /\ owner[LockOf(section)] = t

(* main has added the model to the controller, the window to the model. *)
Observed == pc[UI] # "observe"
Opened == pc[UI] \notin {"observe", "open"}

(* A connection, the socket of a send task and that of an ACK task hold a   *)
(* descriptor from the spawning of the task to its end.                     *)
HoldsDescriptor(j) == j.what # "receive" \/ j.about \in Streams
Alive == queue \cup {task[w] : w \in {w \in Workers : task[w] # Nobody}}
Held == {j \in Alive : HoldsDescriptor(j)}
Free == Descriptors - Cardinality(Held)

Goto(t, s) == pc' = [pc EXCEPT ![t] = s]

LeaveAll(t) == owner' = [l \in Locks |-> IF owner[l] = t THEN Nobody ELSE owner[l]]

(* The thread's task, its manage_send, or main, is over. *)
EndTask(t) ==
    /\ Goto(t, IF t = UI THEN "ended" ELSE IF t \in Workers THEN "idle" ELSE "done")
    /\ task' = [w \in Workers |-> IF w = t THEN Nobody ELSE task[w]]

(* The guards of a thread that unwinds poison what it owns. *)
Panic(t) ==
    /\ poisoned' = poisoned \cup {l \in Locks : owner[l] = t}
    /\ LeaveAll(t) /\ EndTask(t)
    /\ UNCHANGED <<windowVars, queue, listenerVars, todo>>

Init ==
    /\ pc = [t \in Threads |-> IF t = UI THEN "observe" ELSE "idle"]
    /\ owner = [l \in Locks |-> Nobody]
    /\ poisoned = {}
    /\ page = "Split" /\ hasRoom \in BOOLEAN
    /\ queue = {} /\ arrived = {} /\ accepting = TRUE
    /\ task = [w \in Workers |-> Nobody]
    /\ todo = [m \in Messages |-> {}]

----------------------------------------------------------------------------
(* The locks: lock().unwrap() *)

Enter(t) ==
    /\ Running /\ pc[t] \in Sections
    /\ LET l == LockOf(pc[t])
       IN  /\ owner[l] = Nobody /\ l \notin poisoned
           /\ owner' = [owner EXCEPT ![l] = t]
    /\ UNCHANGED <<pc, poisoned, windowVars, queue, task, listenerVars, todo>>

EnterPoisoned(t) ==
    /\ Running /\ pc[t] \in Sections
    /\ owner[LockOf(pc[t])] = Nobody /\ LockOf(pc[t]) \in poisoned
    /\ Panic(t)

----------------------------------------------------------------------------
(* The UI thread *)

(* It does the work of a section, leaves its lock and goes on. *)
UISection(section, next) ==
    /\ Inside(UI, section)
    /\ LeaveAll(UI) /\ Goto(UI, next)
    /\ UNCHANGED <<poisoned, windowVars, queue, task, listenerVars, todo>>

(* main, when init_controller has started the listeners. *)
AddObserver == UISection("observe", "open")
OpenWindow == UISection("open", "idle")

(* A frame, on the page the user selects.  Contacts takes no lock. *)
StartFrame ==
    /\ At(UI, "idle")
    /\ \E p \in Pages :
          page' = p /\ Goto(UI, IF p = "Contacts" THEN "idle" ELSE "settings")
    /\ UNCHANGED <<lockVars, hasRoom, queue, task, listenerVars, todo>>

(* The settings bar indexes the first room with the model locked; so does   *)
(* the forge right after it, with a default.                                *)
SettingsBar == hasRoom /\ UISection("settings", "prompt")

NoRoom == Inside(UI, "settings") /\ ~ hasRoom /\ Panic(UI)

(* Mutant: the guard of the handler lives to the end of the prompt. *)
PromptKeepsHandler ==
    /\ Inside(UI, "prompt")
    /\ Goto(UI, IF \E m \in Messages : pc[m] = "idle" THEN "compose" ELSE "view")
    /\ UNCHANGED <<lockVars, windowVars, queue, task, listenerVars, todo>>

(* The prompt takes the events out; the user may press Send. *)
Prompt ==
    \/ UISection("prompt", "view")
    \/ (\E m \in Messages : pc[m] = "idle") /\ UISection("prompt", "compose")

(* It clones the local peer and spawns manage_send. *)
Compose(m) ==
    /\ Inside(UI, "compose") /\ pc[m] = "idle"
    /\ LeaveAll(UI)
    /\ pc' = [pc EXCEPT ![UI] = "view", ![m] = "add"]
    /\ UNCHANGED <<poisoned, windowVars, queue, task, listenerVars, todo>>

View ==
    /\ At(UI, "view")
    /\ Goto(UI, CASE page = "Table" -> "idle"
                  [] page = "Graph" -> "graph"
                  [] OTHER -> "list")
    /\ UNCHANGED <<lockVars, windowVars, queue, task, listenerVars, todo>>

(* The split view clamps between 200 and the width less 200, which panics   *)
(* in a window narrower than 400.                                           *)
NarrowSplit == At(UI, "view") /\ page = "Split" /\ Panic(UI)

DrawList == UISection("list", IF page = "Split" THEN "graph" ELSE "idle")

(* The graph drops the model before it takes the handler for its context.   *)
DrawGraph == UISection("graph", "repaint")
RequestRepaint == UISection("repaint", "idle")

----------------------------------------------------------------------------
(* manage_send, and what it and the tasks tell the event handler *)

(* Mutant: the sockets are opened and cloned with the model locked. *)
AddMessageAndSockets(m) ==
    IF Free = 0 THEN Inside(m, "add") /\ Panic(m)
    ELSE /\ Inside(m, "add")
         /\ todo' = [todo EXCEPT ![m] = Recipients]
         /\ Goto(m, "notify")
         /\ UNCHANGED <<lockVars, windowVars, queue, task, listenerVars>>

(* add_message lists it and notifies the handler with the model locked. *)
AddMessage(m) ==
    /\ Inside(m, "add")
    /\ todo' = [todo EXCEPT ![m] = Recipients]
    /\ Goto(m, "notify")
    /\ UNCHANGED <<lockVars, windowVars, queue, task, listenerVars>>

(* Mutant: the guard of the handler is never dropped. *)
OnEventKeepsHandler(t) ==
    /\ Inside(t, "notify")
    /\ owner' = [l \in Locks |->
          IF owner[l] = t /\ l # "handler" THEN Nobody ELSE owner[l]]
    /\ IF t \in Messages THEN Goto(t, "copies") /\ UNCHANGED task ELSE EndTask(t)
    /\ UNCHANGED <<poisoned, windowVars, queue, listenerVars, todo>>

(* on_event queues the event.  A task is over then, manage_send goes on     *)
(* with the copies.                                                         *)
OnEvent(t) ==
    /\ Inside(t, "notify")
    /\ LeaveAll(t)
    /\ IF t \in Messages THEN Goto(t, "copies") /\ UNCHANGED task ELSE EndTask(t)
    /\ UNCHANGED <<poisoned, windowVars, queue, listenerVars, todo>>

SendToPeer(m, r) ==
    /\ At(m, "copies") /\ r \in todo[m] /\ Free > 0
    /\ todo' = [todo EXCEPT ![m] = @ \ {r}]
    /\ queue' = queue \cup {Send(m, r)}
    /\ UNCHANGED <<pc, lockVars, windowVars, task, listenerVars>>

(* No socket: no descriptor is left, or the endpoint is unusable. *)
NoSocket(m, r) ==
    /\ At(m, "copies") /\ r \in todo[m]
    /\ todo' = [todo EXCEPT ![m] = @ \ {r}]
    /\ Goto(m, "report")
    /\ UNCHANGED <<lockVars, windowVars, queue, task, listenerVars>>

Report(t) ==
    /\ Inside(t, "report")
    /\ Goto(t, "notify")
    /\ UNCHANGED <<lockVars, windowVars, queue, task, listenerVars, todo>>

ManageSendEnds(m) ==
    /\ At(m, "copies") /\ todo[m] = {}
    /\ EndTask(m)
    /\ UNCHANGED <<lockVars, windowVars, queue, listenerVars, todo>>

----------------------------------------------------------------------------
(* The listeners and the workers *)

(* Mutant: the limit of descriptors is not looked at. *)
ArriveUnlimited(p) ==
    /\ Running /\ p \notin arrived
    /\ arrived' = arrived \cup {p}
    /\ queue' = queue \cup {Receive(p)}
    /\ UNCHANGED <<pc, lockVars, windowVars, task, accepting, todo>>

Arrive(p) ==
    /\ Running /\ p \notin arrived
    /\ p \in Streams => accepting /\ Free > 0
    /\ arrived' = arrived \cup {p}
    /\ queue' = queue \cup {Receive(p)}
    /\ UNCHANGED <<pc, lockVars, windowVars, task, accepting, todo>>

(* accept needs a descriptor, whether or not a connection waits; the error  *)
(* ends the loop.                                                           *)
ListenerEnds ==
    /\ Running /\ accepting /\ Free = 0
    /\ accepting' = FALSE
    /\ UNCHANGED <<pc, lockVars, windowVars, queue, task, arrived, todo>>

FirstStep(j) ==
    IF j.what # "receive" THEN "sending"
    ELSE IF j.about \in Streams THEN "reading" ELSE "decode"

Take(w, j) ==
    /\ At(w, "idle") /\ j \in queue
    /\ queue' = queue \ {j}
    /\ task' = [task EXCEPT ![w] = j]
    /\ Goto(w, FirstStep(j))
    /\ UNCHANGED <<lockVars, windowVars, listenerVars, todo>>

(* read_to_end blocks the worker until the sender closes the connection...  *)
ReadToEnd(w) ==
    /\ At(w, "reading")
    /\ Goto(w, "decode")
    /\ UNCHANGED <<lockVars, windowVars, queue, task, listenerVars, todo>>

(* Mutant: the connection is read with the controller locked. *)
StallUnderLock(w) ==
    /\ Inside(w, "decode") /\ task[w].about \in Streams
    /\ Goto(w, "stalled")
    /\ UNCHANGED <<lockVars, windowVars, queue, task, listenerVars, todo>>

(* ... for good if it never does. *)
Stall(w) ==
    /\ At(w, "reading")
    /\ Goto(w, "stalled")
    /\ UNCHANGED <<lockVars, windowVars, queue, task, listenerVars, todo>>

(* The task goes on to a section under the locks it has, or ends. *)
Proceed(w, goesOn, section) ==
    IF goesOn THEN Goto(w, section) /\ UNCHANGED <<owner, task>>
    ELSE LeaveAll(w) /\ EndTask(w)

(* With two descriptors left the ACK gets a socket and the clone its task   *)
(* sends on; with none there is no ACK.  None is sent either to a stranger. *)
DecodeChat(w) ==
    /\ Inside(w, "decode")
    /\ Proceed(w, Observed, "show")
    /\ \/ Free >= 2 /\ queue' = queue \cup {SendAck(task[w].about)}
       \/ UNCHANGED queue
    /\ UNCHANGED <<poisoned, windowVars, listenerVars, todo>>

(* With a single one the clone fails, and its expect panics. *)
CloneFails(w) ==
    Inside(w, "decode") /\ Free = 1 /\ Panic(w)

DecodeAck(w) ==
    /\ Inside(w, "decode")
    /\ Proceed(w, Observed, "mark")
    /\ UNCHANGED <<poisoned, windowVars, queue, listenerVars, todo>>

DropJunk(w) ==
    /\ Inside(w, "decode")
    /\ LeaveAll(w) /\ EndTask(w)
    /\ UNCHANGED <<poisoned, windowVars, queue, listenerVars, todo>>

(* The message is listed and, once there is a window, announced. *)
OnSocketEvent(w) ==
    /\ Inside(w, "show")
    /\ Proceed(w, Opened, "notify")
    /\ UNCHANGED <<poisoned, windowVars, queue, listenerVars, todo>>

Listed(m) == pc[m] \notin {"idle", "add"}

(* The ACK may be for a delivery that is not known (any more). *)
OnAckReceived(w) ==
    /\ Inside(w, "mark")
    /\ \/ (\E m \in Messages : Listed(m)) /\ Proceed(w, Opened, "notify")
       \/ Proceed(w, FALSE, "notify")
    /\ UNCHANGED <<poisoned, windowVars, queue, listenerVars, todo>>

(* The packet is written, or it is an ACK whose failure is logged; or the   *)
(* connection of a received one could not be read.                          *)
TaskEnds(w) ==
    /\ At(w, "sending") \/ At(w, "reading")
    /\ EndTask(w)
    /\ UNCHANGED <<lockVars, windowVars, queue, listenerVars, todo>>

SendTaskFails(w) ==
    /\ At(w, "sending") /\ task[w].what = "send"
    /\ Goto(w, "report")
    /\ UNCHANGED <<lockVars, windowVars, queue, task, listenerVars, todo>>

----------------------------------------------------------------------------
UINext ==
    \/ AddObserver \/ OpenWindow \/ StartFrame \/ SettingsBar \/ NoRoom \/ Prompt
    \/ View \/ NarrowSplit \/ DrawList \/ DrawGraph \/ RequestRepaint
    \/ \E m \in Messages : Compose(m)

SenderNext(m) ==
    \/ AddMessage(m) \/ ManageSendEnds(m)
    \/ \E r \in Recipients : SendToPeer(m, r) \/ NoSocket(m, r)

WorkerNext(w) ==
    \/ \E j \in queue : Take(w, j)
    \/ ReadToEnd(w) \/ Stall(w) \/ DecodeChat(w) \/ CloneFails(w) \/ DecodeAck(w) \/ DropJunk(w)
    \/ OnSocketEvent(w) \/ OnAckReceived(w) \/ TaskEnds(w) \/ SendTaskFails(w)

(* What a thread does when it does not wait for a lock. *)
Step(t) ==
    \/ EnterPoisoned(t) \/ OnEvent(t) \/ Report(t)
    \/ t = UI /\ UINext
    \/ t \in Messages /\ SenderNext(t)
    \/ t \in Workers /\ WorkerNext(t)

Next ==
    \/ \E t \in Threads : Enter(t) \/ Step(t)
    \/ \E p \in Packets : Arrive(p)
    \/ ListenerEnds

Spec == Init /\ [][Next]_vars

(* Every thread runs, frames are drawn at least twice a second (app.rs:238) *)
(* and leave their locks, and a lock that is free again and again is        *)
(* obtained.  Nothing has to arrive, and the user to send nothing.          *)
Fairness == \A t \in Threads : SF_vars(Enter(t) \/ Step(t))

FairSpec == Spec /\ Fairness

----------------------------------------------------------------------------
UIPlaces ==
    {"observe", "open", "idle", "settings", "prompt", "compose", "view", "list", "graph",
     "repaint", "ended"}
SenderPlaces == {"idle", "add", "notify", "copies", "report", "done"}
WorkerPlaces ==
    {"idle", "reading", "stalled", "decode", "show", "mark", "notify", "sending", "report"}

(* Every variable holds a value of its type, a worker has a task exactly    *)
(* when it is not idle, and the descriptors are never overdrawn.            *)
TypeOK ==
    /\ pc[UI] \in UIPlaces
    /\ \A m \in Messages : pc[m] \in SenderPlaces
    /\ \A w \in Workers : pc[w] \in WorkerPlaces /\ (pc[w] = "idle" <=> task[w] = Nobody)
    /\ owner \in [Locks -> Threads \cup {Nobody}] /\ poisoned \subseteq Locks
    /\ page \in Pages /\ hasRoom \in BOOLEAN /\ accepting \in BOOLEAN
    /\ queue \subseteq Tasks /\ task \in [Workers -> Tasks \cup {Nobody}]
    /\ arrived \subseteq Packets /\ todo \in [Messages -> SUBSET Recipients]
    /\ Free >= 0

Waiting(t) == pc[t] \in Sections /\ owner[LockOf(pc[t])] # t

(* Controller, model and handler are taken in this order by everybody: no   *)
(* set of threads ever waits for locks that are owned within the set.       *)
NoCircularWait ==
    \A S \in (SUBSET Threads) \ {{}} :
        \E t \in S : ~ Waiting(t) \/ owner[LockOf(pc[t])] \notin S

(* The thread has a step to take, in a process that runs. *)
CanStep(t) ==
    \/ /\ pc[t] \in Sections /\ owner[LockOf(pc[t])] \in {Nobody, t}
       /\ Inside(t, "compose") => \E m \in Messages : pc[m] = "idle"
    \/ pc[t] \in {"view", "copies", "reading", "sending"}
    \/ pc[t] = "idle" /\ (t = UI \/ (t \in Workers /\ queue # {}))

(* Whoever waits for a lock, some thread inside one of the locks, or free   *)
(* to enter one, has a step to take.                                        *)
LocksMove ==
    Running /\ (\E t \in Threads : Waiting(t)) =>
        \E u \in Threads : pc[u] \in Sections /\ CanStep(u)

(* Between two frames, with nothing to do for any other thread. *)
AtRest == At(UI, "idle") /\ \A t \in Threads \ {UI} : ~ CanStep(t)

(* Rest is reached with the work done: with more workers than connections   *)
(* to stall them, every packet that arrived was dealt with or its           *)
(* connection stalls, and no copy or ACK of a message is left unsent.       *)
RestMeansDone ==
    (AtRest /\ Cardinality(Streams) < Cardinality(Workers)) =>
        /\ queue = {}
        /\ \A w \in Workers :
              pc[w] = "idle" \/ (pc[w] = "stalled" /\ task[w].about \in Streams)
        /\ \A m \in Messages : pc[m] \in {"idle", "done"} /\ todo[m] = {}

(* While the process runs, no thread panics under a lock the UI takes in a  *)
(* frame: out of descriptors the node may turn deaf, and the window stays.  *)
PoisonConfined == Running => poisoned \subseteq {"controller"}

(* The process ends by itself in three ways only: the controller was        *)
(* poisoned before main added its observer, the configuration has no room,  *)
(* or the split view is drawn in a narrow window.                           *)
WindowSurvives ==
    [][Running /\ ~ Running' =>
          \/ pc[UI] = "observe"
          \/ pc[UI] = "settings" /\ ~ hasRoom
          \/ pc[UI] = "view" /\ page = "Split"]_vars

(* With more workers than connections to stall them, each packet that       *)
(* arrived is dealt with, and so are the ACK it causes and the copies of    *)
(* every message the user sent, whatever locks the frames take.             *)
Open(x) == \E j \in Alive : j.about = x \/ (j.what = "send" /\ j.about[1] = x)

StalledOn(p) == \E w \in Workers : pc[w] = "stalled" /\ task[w].about = p

TasksEnd ==
    /\ \A p \in Packets : p \in arrived ~> (~ Open(p) \/ StalledOn(p) \/ ~ Running)
    /\ \A m \in Messages :
          pc[m] = "add" ~> ((pc[m] = "done" /\ ~ Open(m)) \/ ~ Running)

(* The UI thread never gets stuck: unless the process ends there is always  *)
(* another frame.                                                           *)
FramesKeepComing == []<>(pc[UI] = "idle" \/ ~ Running)
=============================================================================
