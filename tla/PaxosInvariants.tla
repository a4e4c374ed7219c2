-------------------------- MODULE PaxosInvariants ---------------------------
(***************************************************************************)
(* The inductive invariants of Paxos: TypeInv, what a call and its ballot  *)
(* are; SafeInv, what a round knows of the replicas; DoneInv, what a       *)
(* commit stands for.  The Paxos*Proofs modules show that every step keeps *)
(* them.                                                                   *)
(***************************************************************************)
EXTENDS Paxos

-----------------------------------------------------------------------------
\* Types, and what the variables of one call say about each other.

Active == {"prepare", "read", "propose", "commit"}

Owns(c, b) == \E t \in Nat : b = BallotWithTimestamp(t, NodeRank[c])

\* No ballot of c is newer than this.
BallotBound(c) == BallotWithTimestamp(clock[NodeRank[c]] + attempts[c], NodeRank[c])

CallOK ==
    \A c \in Cas :
        /\ pc[c] # "idle" => mutation[c] \in Mutation
        /\ pc[c] \in Active => ballot[c] > 0 /\ Owns(c, ballot[c])
        /\ attempts[c] = 0 => ballot[c] = 0
        /\ ballot[c] <= BallotBound(c)
        /\ pc[c] = "read" => in_progress[c] = NoProposal

TypeInv == TypeOK /\ CallOK

-----------------------------------------------------------------------------
\* d has already made its proposal under ballot b.
Spent(d, b) == b < ballot[d] \/ (b = ballot[d] /\ pc[d] \notin {"prepare", "read"})

\* Every proposal was made by the call that owns its ballot, and what calls
\* work with was proposed.
BallotsOK ==
    /\ \A p \in proposed : \E d \in Cas : Owns(d, p.ballot) /\ Spent(d, p.ballot)
    /\ \A c \in Cas : pc[c] \in {"propose", "commit"} => ProposalOf(c) \in proposed
    /\ \A c \in Cas : in_progress[c] \in proposed \cup {NoProposal}
    /\ UniqueBallots

\* A replica holds its newest accepted proposal until a commit covers it.
VotesOK ==
    \A r \in Replica :
        /\ votes[r] \subseteq proposed
        /\ states[r].accepted \in votes[r] \cup {NoProposal}
        /\ states[r].committed \in proposed \cup {NoProposal}
        /\ \A p \in votes[r] :
              /\ p.ballot <= states[r].promised
              /\ \/ p.ballot <= states[r].accepted.ballot
                 \/ p.ballot <= states[r].committed.ballot

Visited(c, r) == pc[c] = "read" \/ (pc[c] = "prepare" /\ r \in heard[c])

\* What a call knows of a replica it has prepared.
PreparedOK ==
    \A c \in Cas, r \in Replica : Visited(c, r) =>
        /\ states[r].promised >= ballot[c]
        /\ \A p \in votes[r] : p.ballot < ballot[c] =>
              \/ p.ballot <= in_progress[c].ballot
              \/ p.ballot <= states[r].committed.ballot

\* Every replica has promised the ballot of every proposal, or more.
PromisedOK == \A q \in proposed, r \in Replica : states[r].promised >= q.ballot

SafeInv ==
    TypeInv /\ BallotsOK /\ VotesOK /\ PreparedOK /\ PromisedOK /\ NoRivalProposal

-----------------------------------------------------------------------------
Voters(p) == {r \in Replica : p \in votes[r]}

Chosen(p) == Cardinality(Voters(p)) >= quorum_size

\* The replica has committed proposal p or one of a higher ballot.
Covered(r, p) == states[r].committed = p \/ states[r].committed.ballot > p.ballot

\* While a call proposes, nobody has committed under its ballot.
OrderOK ==
    /\ \A r \in Replica : states[r].accepted # NoProposal
          => states[r].accepted.ballot > states[r].committed.ballot
    /\ \A r \in Replica, c \in Cas :
          pc[c] = "propose" => states[r].committed.ballot # ballot[c]

\* Every commit sent or made is of a chosen proposal.
ChosenOK ==
    /\ \A c \in Cas : pc[c] = "propose" => acks[c] \subseteq Voters(ProposalOf(c))
    /\ \A c \in Cas : pc[c] = "commit" => Chosen(ProposalOf(c))
    /\ \A r \in Replica : states[r].committed # NoProposal => Chosen(states[r].committed)

\* A replica that answered a commit keeps it, or a newer one.
DurableOK ==
    /\ \A c \in Cas : pc[c] = "commit" =>
          \A r \in heard[c] : Covered(r, ProposalOf(c))
    /\ \A c \in Cas : pc[c] = "Success" => in_progress[c] = NoProposal
    /\ SuccessIsDurable

DoneInv == OrderOK /\ ChosenOK /\ DurableOK
=============================================================================
