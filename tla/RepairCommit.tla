---------------------------- MODULE RepairCommit ----------------------------
(***************************************************************************)
(* What consistent repair promises: the participants of a session agree on *)
(* whether its data is marked as repaired.  A participant that has         *)
(* promised waits for the decision; one that has not may give up by        *)
(* itself; nobody marks data as repaired before everybody has promised.    *)
(***************************************************************************)
CONSTANT Participant

VARIABLE mark   \* [Participant -> what has become of the data]

Init == mark = [p \in Participant |-> "unrepaired"]

Promise(p) ==
    /\ mark[p] = "unrepaired"
    /\ mark' = [mark EXCEPT ![p] = "promised"]

Repaired(p) ==
    /\ mark[p] = "promised"
    /\ \A q \in Participant : mark[q] \in {"promised", "repaired"}
    /\ mark' = [mark EXCEPT ![p] = "repaired"]

Failed(p) ==
    /\ mark[p] \in {"unrepaired", "promised"}
    /\ \A q \in Participant : mark[q] # "repaired"
    /\ mark' = [mark EXCEPT ![p] = "failed"]

Next == \E p \in Participant : Promise(p) \/ Repaired(p) \/ Failed(p)

Spec == Init /\ [][Next]_mark
=============================================================================
