------------------------------ MODULE MCAccord ------------------------------
(***************************************************************************)
(* Instances of Accord: every transaction conflicts with every other one.  *)
(***************************************************************************)
EXTENDS Accord, TLC

CONSTANTS t1, t2, t3, k1

Same == [t \in Txn |-> {k1}]
Symmetry == Permutations(Txn)
=============================================================================
