------------------------------- MODULE BpSocket -------------------------------
(***************************************************************************)
(* One host of the bp-socket path: the AF_BP sockets of the kernel module  *)
(* (src/bp-socket/bp_socket), the daemon between the kernel and ION        *)
(* (src/bp-socket/daemon), and the DTChat listeners that read from them    *)
(* (src/src/utils/socket.rs).                                              *)
(*                                                                         *)
(* A listener that has nothing to read asks the daemon for ONE bundle, and *)
(* sleeps until something is queued.  The daemon answers each request from *)
(* a thread of its own, which opens the ION endpoint, takes a bundle and   *)
(* closes it again; nothing else wakes a sleeping reader.                  *)
(***************************************************************************)
EXTENDS Naturals, Sequences, SequencesExt, FiniteSets

CONSTANTS
    Sockets,        \* listening sockets, one per DTChat process
    Addresses,      \* [Sockets -> [node, service]], the EIDs they bind to
    Services,
    Inbound,        \* bundles from the network
    Dest,           \* [Inbound -> Services]
    Oversize,       \* those that do not fit the 1024 bytes of the listener
    Outbound,       \* ADUs the applications of the host send
    TooLong,        \* those of more than 255 bytes, no string for ION
    MaxKills,       \* bound: processes killed
    MaxFaults,      \* bound: failed calls of the daemon, ends of it
    MaxInterrupts   \* bound: waits interrupted by a signal

ASSUME SocketsAssumption ==
    /\ Addresses \in [Sockets -> [node : Nat \ {0}, service : Services]]
    /\ Dest \in [Inbound -> Services] /\ Oversize \subseteq Inbound
ASSUME BudgetAssumption ==
    MaxKills \in Nat /\ MaxFaults \in Nat /\ MaxInterrupts \in Nat

VARIABLES
    state,          \* of a socket: see States
    bp_list,        \* bound sockets, the last bound first
    queue,          \* [Sockets -> Seq(Inbound)], received and not read
    toDaemon,       \* netlink messages from the kernel to the daemon
    opening,        \* daemon threads that are about to open an endpoint
    receiving,      \* services whose endpoint a thread has open
    held,           \* bundles a thread has taken and not delivered
    ion,            \* [Services -> Seq(Inbound)], waiting in ION
    arrived,        \* bundles the network brought so far
    read,           \* [Sockets -> SUBSET Inbound], read by the listener
    posted,         \* ADUs bp_sendmsg returned success for
    accepted,       \* those ION took
    daemonUp,
    raced,          \* history: two binds of one address overlapped
    abandoned,      \* history: [Sockets -> Nat], waits left without a bundle
    kills, faults, interrupts   \* the budgets used

socketVars == <<state, bp_list, queue, read>>
daemonVars == <<toDaemon, opening, receiving, held, daemonUp>>
ionVars == <<ion, arrived, accepted>>
budgetVars == <<kills, faults, interrupts>>
otherVars == <<posted, raced, abandoned, budgetVars>>
vars == <<socketVars, daemonVars, ionVars, otherVars>>

(* "checked": bp_bind found the address free and has not added the socket;  *)
(* "waiting": in the wait_event_interruptible of bp_recvmsg.                *)
States == {"closed", "created", "checked", "bound", "waiting"}

Service(s) == Addresses[s].service

Bound == ToSet(bp_list)

(* Where the walk of the list stops: at the first socket of the service,    *)
(* whatever its node; 0 if there is none.                                   *)
FirstOn(v) == SelectInSeq(bp_list, LAMBDA s : Service(s) = v)

----------------------------------------------------------------------------
Init ==
    /\ state = [s \in Sockets |-> "closed"]
    /\ bp_list = <<>>
    /\ queue = [s \in Sockets |-> <<>>]
    /\ read = [s \in Sockets |-> {}]
    /\ toDaemon = <<>>
    /\ opening = [v \in Services |-> 0]
    /\ receiving = {} /\ held = {}
    /\ daemonUp = TRUE
    /\ ion = [v \in Services |-> <<>>]
    /\ arrived = {} /\ accepted = {} /\ posted = {}
    /\ raced = FALSE /\ abandoned = [s \in Sockets |-> 0]
    /\ kills = 0 /\ faults = 0 /\ interrupts = 0

Request(v) == [cmd |-> "request", arg |-> v]

(* Netlink unicast: with no daemon the message is gone, an error is logged. *)
Unicast(msg) == toDaemon' = IF daemonUp THEN Append(toDaemon, msg) ELSE toDaemon

----------------------------------------------------------------------------
(* The listener's socket *)

Create(s) ==
    /\ state[s] = "closed"
    /\ state' = [state EXCEPT ![s] = "created"]
    /\ UNCHANGED <<bp_list, queue, read, daemonVars, ionVars, otherVars>>

(* Mutant: any address is free. *)
BindUnchecked(s) ==
    /\ state[s] = "created"
    /\ state' = [state EXCEPT ![s] = "checked"]
    /\ raced' = (raced \/ \E t \in Sockets : state[t] = "checked" /\ Addresses[t] = Addresses[s])
    /\ UNCHANGED <<bp_list, queue, read, daemonVars, ionVars, posted, abandoned, budgetVars>>

(* bp_bind walks the list under the read lock.  An address in use fails the *)
(* bind; the listener is given up and its socket dropped.                   *)
BindCheck(s) ==
    /\ state[s] = "created"
    /\ IF \E t \in Bound : Addresses[t] = Addresses[s]
       THEN state' = [state EXCEPT ![s] = "closed"]
       ELSE state' = [state EXCEPT ![s] = "checked"]
    /\ raced' = (raced \/ \E t \in Sockets : state[t] = "checked" /\ Addresses[t] = Addresses[s])
    /\ UNCHANGED <<bp_list, queue, read, daemonVars, ionVars, posted, abandoned, budgetVars>>

(* It adds the socket at the head of the list, later, under the write lock. *)
BindAdd(s) ==
    /\ state[s] = "checked"
    /\ state' = [state EXCEPT ![s] = "bound"]
    /\ bp_list' = <<s>> \o bp_list
    /\ UNCHANGED <<queue, read, daemonVars, ionVars, otherVars>>

(* Mutant: the daemon is not asked. *)
RecvSilently(s) ==
    /\ state[s] = "bound"
    /\ state' = [state EXCEPT ![s] = "waiting"]
    /\ UNCHANGED <<bp_list, queue, read, daemonVars, ionVars, otherVars>>

(* bp_recvmsg requests a bundle, whatever is queued already, and waits. *)
Recv(s) ==
    /\ state[s] = "bound"
    /\ state' = [state EXCEPT ![s] = "waiting"]
    /\ Unicast(Request(Service(s)))
    /\ UNCHANGED <<bp_list, queue, read, ionVars, otherVars>>
    /\ UNCHANGED <<opening, receiving, held, daemonUp>>

(* A signal ends the wait while nothing is queued: bp_recvmsg returns       *)
(* -ERESTARTSYS, the restarted call is a Recv again, and the request of the *)
(* first one stays with the daemon.  (Where the signal has a handler        *)
(* recvmsg fails with EINTR and the listen loop ends, as by Kill.)          *)
Interrupt(s) ==
    /\ state[s] = "waiting" /\ queue[s] = <<>> /\ interrupts < MaxInterrupts
    /\ state' = [state EXCEPT ![s] = "bound"]
    /\ abandoned' = [abandoned EXCEPT ![s] = @ + 1]
    /\ interrupts' = interrupts + 1
    /\ UNCHANGED <<bp_list, queue, read, daemonVars, ionVars, posted, raced, kills, faults>>

(* bp_release: the socket leaves the list and its queue is purged.          *)
Release(s) ==
    /\ state' = [state EXCEPT ![s] = "closed"]
    /\ bp_list' = RemoveFirst(bp_list, s)
    /\ queue' = [queue EXCEPT ![s] = <<>>]

(* The reader wakes up with the first bundle of its queue.  If it does not  *)
(* fit the buffer it is freed, recvmsg fails with EMSGSIZE, and the listen  *)
(* loop ends for good.                                                      *)
Wake(s) ==
    /\ state[s] = "waiting" /\ queue[s] # <<>>
    /\ IF Head(queue[s]) \in Oversize
       THEN Release(s) /\ UNCHANGED read
       ELSE /\ state' = [state EXCEPT ![s] = "bound"]
            /\ queue' = [queue EXCEPT ![s] = Tail(@)]
            /\ read' = [read EXCEPT ![s] = @ \cup {Head(queue[s])}]
            /\ UNCHANGED bp_list
    /\ UNCHANGED <<daemonVars, ionVars, otherVars>>

(* The process or its listen loop ends.  What the daemon does for a reader  *)
(* that slept is not called off.                                            *)
Kill(s) ==
    /\ state[s] # "closed" /\ kills < MaxKills
    /\ Release(s)
    /\ abandoned' = IF state[s] = "waiting" THEN [abandoned EXCEPT ![s] = @ + 1]
                    ELSE abandoned
    /\ kills' = kills + 1
    /\ UNCHANGED <<read, daemonVars, ionVars, posted, raced, faults, interrupts>>

(* bp_sendmsg returns success whether or not the daemon could be reached.   *)
SendMsg(o) ==
    /\ o \notin posted
    /\ posted' = posted \cup {o}
    /\ Unicast([cmd |-> "send", arg |-> o])
    /\ UNCHANGED <<socketVars, ionVars, raced, abandoned, budgetVars>>
    /\ UNCHANGED <<opening, receiving, held, daemonUp>>

----------------------------------------------------------------------------
(* The daemon *)

(* Mutant: sends are skipped. *)
HandleRequests ==
    /\ daemonUp /\ toDaemon # <<>>
    /\ toDaemon' = Tail(toDaemon)
    /\ LET msg == Head(toDaemon)
       IN  opening' = [v \in Services |->
               IF msg.cmd = "request" /\ v = msg.arg THEN opening[v] + 1 ELSE opening[v]]
    /\ UNCHANGED <<socketVars, receiving, held, daemonUp, ionVars, otherVars>>

(* on_netlink: a send goes to ION at once, which refuses a string of more   *)
(* than 255 bytes (sdr_string_create); a request gets a thread.             *)
HandleCommand ==
    /\ daemonUp /\ toDaemon # <<>>
    /\ toDaemon' = Tail(toDaemon)
    /\ LET msg == Head(toDaemon)
       IN  IF msg.cmd = "send"
           THEN accepted' = accepted \cup ({msg.arg} \ TooLong) /\ UNCHANGED opening
           ELSE opening' = [opening EXCEPT ![msg.arg] = @ + 1] /\ UNCHANGED accepted
    /\ UNCHANGED <<socketVars, receiving, held, daemonUp, ion, arrived, otherVars>>

(* A send ION does not take for another reason (no SDR, no ZCO, bp_send     *)
(* fails), or a request that gets no memory or thread: an error is logged,  *)
(* the sender and the reader are not told.                                  *)
CommandFails ==
    /\ daemonUp /\ toDaemon # <<>> /\ faults < MaxFaults
    /\ toDaemon' = Tail(toDaemon)
    /\ faults' = faults + 1
    /\ UNCHANGED <<socketVars, opening, receiving, held, daemonUp, ionVars>>
    /\ UNCHANGED <<posted, raced, abandoned, kills, interrupts>>

(* Mutant: a thread nobody asked for. *)
ThreadOpenUnasked(v) ==
    /\ daemonUp
    /\ opening' = [opening EXCEPT ![v] = @ - 1]
    /\ receiving' = receiving \cup {v}
    /\ UNCHANGED <<socketVars, toDaemon, held, daemonUp, ionVars, otherVars>>

(* bp_open refuses an endpoint that is open: the thread ends and its        *)
(* request with it.                                                         *)
ThreadOpen(v) ==
    /\ opening[v] > 0
    /\ opening' = [opening EXCEPT ![v] = @ - 1]
    /\ receiving' = receiving \cup {v}
    /\ UNCHANGED <<socketVars, toDaemon, held, daemonUp, ionVars, otherVars>>

(* Mutant: the endpoint stays open. *)
ThreadKeepsOpen(v) ==
    /\ v \in receiving /\ ion[v] # <<>>
    /\ held' = held \cup {Head(ion[v])}
    /\ ion' = [ion EXCEPT ![v] = Tail(@)]
    /\ UNCHANGED <<socketVars, toDaemon, opening, receiving, daemonUp, arrived>>
    /\ UNCHANGED <<accepted, otherVars>>

(* bp_receive returns the first bundle of the endpoint, which is closed     *)
(* before the bundle is delivered.                                          *)
ThreadReceive(v) ==
    /\ v \in receiving /\ ion[v] # <<>>
    /\ held' = held \cup {Head(ion[v])}
    /\ ion' = [ion EXCEPT ![v] = Tail(@)]
    /\ receiving' = receiving \ {v}
    /\ UNCHANGED <<socketVars, toDaemon, opening, daemonUp, arrived, accepted, otherVars>>

(* Mutant: the walk of the list does not stop at the first socket. *)
DeliverToAll(b) ==
    /\ b \in held
    /\ queue' = [s \in Sockets |->
          IF s \in Bound /\ Service(s) = Dest[b] THEN Append(queue[s], b) ELSE queue[s]]
    /\ held' = held \ {b}
    /\ UNCHANGED <<state, bp_list, read, toDaemon, opening, receiving, daemonUp>>
    /\ UNCHANGED <<ionVars, otherVars>>

(* Mutant: the walk of the list misses its last entry. *)
DeliverButLast(b) ==
    LET i == FirstOn(Dest[b])
    IN  /\ b \in held
        /\ queue' = IF i = 0 \/ i = Len(bp_list) THEN queue
                    ELSE [queue EXCEPT ![bp_list[i]] = Append(@, b)]
        /\ held' = held \ {b}
        /\ UNCHANGED <<state, bp_list, read, toDaemon, opening, receiving, daemonUp>>
        /\ UNCHANGED <<ionVars, otherVars>>

(* deliver_bundle_doit queues it there; with no socket the bundle is gone.  *)
Deliver(b) ==
    LET i == FirstOn(Dest[b])
    IN  /\ b \in held
        /\ queue' = IF i = 0 THEN queue
                    ELSE [queue EXCEPT ![bp_list[i]] = Append(@, b)]
        /\ held' = held \ {b}
        /\ UNCHANGED <<state, bp_list, read, toDaemon, opening, receiving, daemonUp>>
        /\ UNCHANGED <<ionVars, otherVars>>

(* bp_receive fails or returns without a payload: the bundles stay in ION,  *)
(* the thread ends and the reader is not told.                              *)
ThreadFails(v) ==
    /\ v \in receiving /\ faults < MaxFaults
    /\ receiving' = receiving \ {v}
    /\ faults' = faults + 1
    /\ UNCHANGED <<socketVars, toDaemon, opening, held, daemonUp, ionVars>>
    /\ UNCHANGED <<posted, raced, abandoned, kills, interrupts>>

(* The payload of a bundle ION gave away cannot be read, or the netlink     *)
(* message not be built or sent: the bundle is lost with the thread.        *)
BundleFails(b) ==
    /\ b \in held /\ faults < MaxFaults
    /\ held' = held \ {b}
    /\ faults' = faults + 1
    /\ UNCHANGED <<socketVars, toDaemon, opening, receiving, daemonUp, ionVars>>
    /\ UNCHANGED <<posted, raced, abandoned, kills, interrupts>>

(* A signal, or the crash a failed bp_open may end in (bp_recv_once then    *)
(* releases a delivery it never initialised).                               *)
DaemonStops ==
    /\ daemonUp /\ faults < MaxFaults
    /\ daemonUp' = FALSE
    /\ toDaemon' = <<>> /\ opening' = [v \in Services |-> 0]
    /\ receiving' = {} /\ held' = {}
    /\ faults' = faults + 1
    /\ UNCHANGED <<socketVars, ionVars, posted, raced, abandoned, kills, interrupts>>

DaemonStarts ==
    /\ ~ daemonUp /\ daemonUp' = TRUE
    /\ UNCHANGED <<socketVars, toDaemon, opening, receiving, held, ionVars, otherVars>>

(* ION queues what arrives for a closed endpoint (rule q of the ipn.rc).    *)
Arrive(b) ==
    /\ b \notin arrived
    /\ arrived' = arrived \cup {b}
    /\ ion' = [ion EXCEPT ![Dest[b]] = Append(@, b)]
    /\ UNCHANGED <<socketVars, daemonVars, accepted, otherVars>>

SocketNext ==
    \E s \in Sockets :
        \/ Create(s) \/ BindCheck(s) \/ BindAdd(s) \/ Recv(s) \/ Wake(s)
        \/ Interrupt(s) \/ Kill(s)

DaemonNext ==
    \/ HandleCommand \/ CommandFails \/ DaemonStops \/ DaemonStarts
    \/ \E v \in Services : ThreadOpen(v) \/ ThreadReceive(v) \/ ThreadFails(v)
    \/ \E b \in Inbound : Deliver(b) \/ BundleFails(b)

Next ==
    \/ SocketNext \/ DaemonNext
    \/ \E b \in Inbound : Arrive(b)
    \/ \E o \in Outbound : SendMsg(o)

Spec == Init /\ [][Next]_vars

(* The listen loop, the daemon's event loop and its threads run; nobody has *)
(* to start DTChat or to send.                                              *)
Fairness ==
    /\ \A s \in Sockets : /\ WF_vars(BindCheck(s)) /\ WF_vars(BindAdd(s))
                          /\ WF_vars(Recv(s)) /\ WF_vars(Wake(s))
    /\ WF_vars(HandleCommand)
    /\ \A v \in Services : WF_vars(ThreadOpen(v)) /\ WF_vars(ThreadReceive(v))
    /\ \A b \in Inbound : WF_vars(Deliver(b))

FairSpec == Spec /\ Fairness

----------------------------------------------------------------------------
Commands ==
    [cmd : {"request"}, arg : Services] \cup [cmd : {"send"}, arg : Outbound]

(* Every variable holds a value of its type. *)
TypeOK ==
    /\ state \in [Sockets -> States]
    /\ bp_list \in Seq(Sockets)
    /\ queue \in [Sockets -> Seq(Inbound)]
    /\ read \in [Sockets -> SUBSET Inbound]
    /\ toDaemon \in Seq(Commands)
    /\ opening \in [Services -> Nat]
    /\ receiving \subseteq Services /\ held \subseteq Inbound
    /\ ion \in [Services -> Seq(Inbound)]
    /\ arrived \subseteq Inbound /\ accepted \subseteq Outbound /\ posted \subseteq Outbound
    /\ daemonUp \in BOOLEAN /\ raced \in BOOLEAN
    /\ abandoned \in [Sockets -> Nat]
    /\ kills \in 0 .. MaxKills /\ faults \in 0 .. MaxFaults
    /\ interrupts \in 0 .. MaxInterrupts

(* A reader that sleeps on an empty queue has a request or a thread of the  *)
(* daemon working for it, although requests die with a refused bp_open and  *)
(* threads of a former process outlive it: nobody else would wake it.  This *)
(* takes a service of its own and a daemon that never failed.               *)
OwnService(s) == \A t \in Sockets \ {s} : Service(t) # Service(s)

Engaged(v) ==
    \/ Request(v) \in ToSet(toDaemon)
    \/ opening[v] > 0
    \/ v \in receiving
    \/ \E b \in held : Dest[b] = v

ReaderHasHelp ==
    \A s \in Sockets :
        state[s] = "waiting" /\ queue[s] = <<>> /\ OwnService(s) /\ faults = 0
            => Engaged(Service(s))

Queued(b) == {s \in Sockets : b \in ToSet(queue[s])}

Readers(b) == {s \in Sockets : b \in read[s]}

Calm == kills = 0 /\ faults = 0 /\ Oversize \cap arrived = {}

(* Only a socket that listens makes the daemon take a bundle out of ION, so *)
(* on a host where nothing failed none is gone: each waits in ION, is with  *)
(* a thread, is queued or was read.                                         *)
NothingLost ==
    Calm =>
        \A b \in arrived : \/ b \in ToSet(ion[Dest[b]]) \/ b \in held
                           \/ Queued(b) # {} \/ Readers(b) # {}

(* The requests, threads, taken and queued bundles of a service that one    *)
(* socket listens to are never more than one together, but for one more for *)
(* each wait it left without a bundle: a reader that was never interrupted  *)
(* nor killed in its sleep gets its bundles in the order of ION, whatever   *)
(* else fails, since no two are between ION and the reader at a time.       *)
Requests(v) == {i \in DOMAIN toDaemon : toDaemon[i] = Request(v)}

OneUnderWay ==
    \A s \in Sockets : OwnService(s) =>
        LET v == Service(s)
        IN  Cardinality(Requests(v)) + opening[v] + Cardinality(receiving \cap {v})
              + Cardinality({b \in held : Dest[b] = v}) + Len(queue[s])
            <= 1 + abandoned[s]

(* A bundle is in one place at a time, and read by one socket: two sockets  *)
(* that share a service share its bundles, none gets a copy.                *)
OneReader ==
    \A b \in Inbound :
        /\ Cardinality(Queued(b) \cup Readers(b)) <= 1
        /\ b \in held \/ b \in ToSet(ion[Dest[b]]) => Queued(b) \cup Readers(b) = {}

(* To DTChat the sockets, the daemon and ION are a hop that delivers at     *)
(* most once: what ION gave away is read by one socket, once, or never,     *)
(* across kills, failed receptions and restarts of the daemon.              *)
Hop == INSTANCE LastHop WITH
    Bundles <- Inbound, seen <- arrived,
    held <- {b \in Inbound : b \in ToSet(ion[Dest[b]])},
    copies <- [b \in Inbound |-> Cardinality(Readers(b))]

ImplementsLastHop == Hop!AtMostOnce

(* bp_bind refuses an address that is bound (af_bp.c:138-144): no two       *)
(* sockets of the list have the same.  This does not hold: the check and    *)
(* the addition are made under separate locks.                              *)
NoDuplicateBinding ==
    \A i, j \in DOMAIN bp_list : i # j => Addresses[bp_list[i]] # Addresses[bp_list[j]]

(* It does hold as long as no two binds of an address overlap, over any     *)
(* succession of binds, failed binds, deaths and restarts.                  *)
UniqueUnlessRaced == raced \/ NoDuplicateBinding

(* What bp_sendmsg returned success for is with ION or in the daemon's      *)
(* netlink queue, or is too long for ION, as long as no call of the daemon  *)
(* failed and it did not stop: the end of the sending process does not      *)
(* matter.                                                                  *)
SendsAreKept ==
    faults = 0 =>
        \A o \in posted \ TooLong :
            o \in accepted \/ [cmd |-> "send", arg |-> o] \in ToSet(toDaemon)

(* Neither the reader nor the daemon has anything to do: at most a thread   *)
(* is blocked in the bp_receive of an endpoint without a bundle.            *)
AtRest(s) ==
    LET v == Service(s)
    IN  /\ state[s] = "waiting" /\ queue[s] = <<>>
        /\ Request(v) \notin ToSet(toDaemon) /\ opening[v] = 0
        /\ \A b \in held : Dest[b] # v
        /\ v \in receiving => ion[v] = <<>>

(* What the host owes a reader once all is at rest: every bundle the        *)
(* network brought for its service has been read, none is left in ION with  *)
(* a reader asleep that nobody is going to wake.                            *)
RestMeansRead ==
    Calm =>
        \A s \in Sockets : OwnService(s) /\ AtRest(s) =>
            \A b \in arrived : Dest[b] = Service(s) => b \in read[s]

(* A process was killed, or a call failed. *)
Failed == kills > 0 \/ faults > 0

(* On a host where nothing fails a listener reads every bundle of its       *)
(* service that waits in ION and fits its buffer, unless it ends itself     *)
(* over one that does not.                                                  *)
EventuallyRead ==
    \A b \in Inbound \ Oversize, s \in Sockets :
        OwnService(s) /\ Service(s) = Dest[b] =>
            ((b \in ToSet(ion[Dest[b]]) /\ state[s] \in {"bound", "waiting"})
                ~> (b \in read[s] \/ state[s] = "closed" \/ Failed))

(* There, what bp_sendmsg returned success for is taken by ION, unless it   *)
(* is too long.                                                             *)
EventuallyAccepted ==
    \A o \in Outbound \ TooLong : o \in posted ~> (o \in accepted \/ Failed)
=============================================================================
