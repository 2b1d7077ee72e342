----------------------------- MODULE MCChatModel -----------------------------
(* ChatModel on one node, earth, that knows two peers and can reach only one. *)
EXTENDS ChatModel
CONSTANTS earth, moon, mars, l1, r1, r2, a1

MCPeers == {moon, mars}
MCReachable == {mars}
MCLocalUuids == {l1}
MCRemoteUuids == {r1, r2}
MCAckTimes == {a1}

(* The uuids of inbound messages are interchangeable. *)
MCSymmetry == Permutations(MCRemoteUuids)
=============================================================================
