--------------------------- MODULE MCPaxosRecovery ---------------------------
(* Small instances of PaxosRecovery.  Real node ids rank 3, 4 and 5; cut to   *)
(* their low bytes they rank 0, 1 and 2, below every real id.                 *)
EXTENDS PaxosRecovery, TLC

CONSTANTS r1, r2, c1, c2, c3

Nodes == (c1 :> 3) @@ (c2 :> 4) @@ (c3 :> 5)

NodeOf == [c \in Cas |-> Nodes[c]]

LowBytes == [rank \in 0 .. 5 |-> rank % 3]

Vec == [r \in Replica |-> IF r = r1 THEN 1 ELSE 2]

Orders == [c \in Cas |-> Vec]
=============================================================================
