------------------------------- MODULE LastHop --------------------------------
(***************************************************************************)
(* What DTChat may expect of the hop between the bundle agent of its host  *)
(* and its own listener.  There are two such promises: ION gives a bundle  *)
(* away before anybody has read it, uD3TN keeps it until it is told of a   *)
(* success.  The first may lose a bundle, the second may repeat one;       *)
(* neither invents one.  The network of Mesh does all of this.             *)
(***************************************************************************)
EXTENDS Naturals

CONSTANT Bundles

VARIABLES
    seen,           \* bundles the network brought
    held,           \* those the agent still has
    copies          \* [Bundles -> Nat], times each was handed to a listener

vars == <<seen, held, copies>>

Init == seen = {} /\ held = {} /\ copies = [b \in Bundles |-> 0]

Arrive(b) ==
    /\ b \notin seen
    /\ seen' = seen \cup {b} /\ held' = held \cup {b}
    /\ UNCHANGED copies

Hand(b) == copies' = [copies EXCEPT ![b] = @ + 1] /\ UNCHANGED <<seen, held>>

GiveUp(b) == b \in held /\ held' = held \ {b} /\ UNCHANGED <<seen, copies>>

(* The agent gives a bundle up first; it is handed over then, or lost.      *)
AtMostOnceNext ==
    \E b \in Bundles :
        \/ Arrive(b) \/ GiveUp(b)
        \/ b \in seen \ held /\ copies[b] = 0 /\ Hand(b)

AtMostOnce == Init /\ [][AtMostOnceNext]_vars

(* The agent gives a bundle up once it was handed over; until then it may   *)
(* be handed over again, and never after.                                   *)
AtLeastOnceNext ==
    \E b \in Bundles :
        \/ Arrive(b)
        \/ copies[b] > 0 /\ GiveUp(b)
        \/ b \in held /\ Hand(b)

AtLeastOnce == Init /\ [][AtLeastOnceNext]_vars
=============================================================================
