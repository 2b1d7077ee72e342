------------------------------- MODULE Delivery -------------------------------
(***************************************************************************)
(* What the mesh promises its users, whatever the network does: a message  *)
(* reaches only peers it was written to, the "ack" mark of a recipient     *)
(* appears only once that recipient has it, and a mark disappears only     *)
(* with the whole history of the node that wrote the message, when that    *)
(* node restarts.                                                          *)
(***************************************************************************)
CONSTANTS
    Nodes,
    Messages,
    Origin,         \* [Messages -> Nodes], who writes a message
    Audience        \* [Messages -> SUBSET Nodes], whom it is written to

VARIABLES
    written,        \* messages written so far
    delivered,      \* [Messages -> SUBSET Nodes], who has had it
    confirmed       \* [Messages -> SUBSET Nodes], whose ACK its writer shows

vars == <<written, delivered, confirmed>>

Init ==
    /\ written = {}
    /\ delivered = [m \in Messages |-> {}]
    /\ confirmed = [m \in Messages |-> {}]

Write(m) ==
    /\ m \notin written
    /\ written' = written \cup {m}
    /\ UNCHANGED <<delivered, confirmed>>

Deliver(m, n) ==
    /\ m \in written /\ n \in Audience[m]
    /\ delivered' = [delivered EXCEPT ![m] = @ \cup {n}]
    /\ UNCHANGED <<written, confirmed>>

Confirm(m, n) ==
    /\ n \in delivered[m]
    /\ confirmed' = [confirmed EXCEPT ![m] = @ \cup {n}]
    /\ UNCHANGED <<written, delivered>>

Restart(n) ==
    /\ confirmed' = [m \in Messages |-> IF Origin[m] = n THEN {} ELSE confirmed[m]]
    /\ UNCHANGED <<written, delivered>>

Next ==
    \/ \E m \in Messages : Write(m)
    \/ \E m \in Messages, n \in Nodes : Deliver(m, n) \/ Confirm(m, n)
    \/ \E n \in Nodes : Restart(n)

Spec == Init /\ [][Next]_vars
=============================================================================
