------------------------------- MODULE MCPaxos -------------------------------
(* Small instances of Paxos: three replicas, two concurrent calls.          *)
EXTENDS Paxos, TLC

CONSTANTS r1, r2, r3, c1, c2

\* Calls of different nodes, whose Vecs list the replicas in different orders.
TwoNodes == (c1 :> 0) @@ (c2 :> 1)

\* Calls of the same node.
SameNode == (c1 :> 0) @@ (c2 :> 0)

Forward == (r1 :> 1) @@ (r2 :> 2) @@ (r3 :> 3)

Backward == (r1 :> 3) @@ (r2 :> 2) @@ (r3 :> 1)

TwoOrders == (c1 :> Forward) @@ (c2 :> Backward)
=============================================================================
