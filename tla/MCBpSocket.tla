------------------------------ MODULE MCBpSocket ------------------------------
(* BpSocket on one host, with a bundle that fits the listener's buffer and    *)
(* one that does not.  Shared: three DTChat processes of one service, two     *)
(* configured with the same address, one with another node's.  Own: two       *)
(* processes, each with a service of its own, and two ADUs to send, one too   *)
(* long.                                                                      *)
EXTENDS BpSocket, TLC
CONSTANTS s1, s2, s3, b1, b2, o1, o2

Eid(n, v) == [node |-> n, service |-> v]
MCInbound == {b1, b2}

SharedSockets == {s1, s2, s3}
SharedServices == {2}
SharedAddresses == s1 :> Eid(10, 2) @@ s2 :> Eid(10, 2) @@ s3 :> Eid(11, 2)
SharedDest == b1 :> 2 @@ b2 :> 2
SameAddress == Permutations({s1, s2})

OwnSockets == {s1, s3}
OwnServices == {2, 3}
OwnAddresses == s1 :> Eid(10, 2) @@ s3 :> Eid(10, 3)
OwnDest == b1 :> 3 @@ b2 :> 3
=============================================================================
