---------------------------- MODULE MCNodeThreads ----------------------------
(* NodeThreads with two workers and one message to one recipient.  Two        *)
(* packets arrive, one of them over a connection.                             *)
EXTENDS NodeThreads
CONSTANTS w1, w2, m1, r1, p1, p2
=============================================================================
