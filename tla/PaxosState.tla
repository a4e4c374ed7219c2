----------------------------- MODULE PaxosState -----------------------------
(***************************************************************************)
(* The per-partition Paxos state of one replica, paxos/state.rs, and the   *)
(* ballots that order it, paxos/ballot.rs: pure operators, no variables.   *)
(*                                                                         *)
(* A Ballot is the pair (timestamp_micros, node_id) compared               *)
(* lexicographically.  It is written here as the natural number            *)
(* timestamp * Ranks + rank of the node, which has the same order;         *)
(* Ballot::none() is 0.  A mutation is an opaque value.                    *)
(***************************************************************************)
EXTENDS Naturals

CONSTANTS
    Mutation,       \* the serialized CAS writes
    NoMutation,     \* the mutation of a proposal that is None
    Ranks           \* how many node ids there are

ASSUME RanksAssumption == Ranks \in Nat \ {0}
ASSUME NoMutationAssumption == NoMutation \notin Mutation

BallotNone == 0

\* Ballot::with_timestamp: rank is the place of node_id in the order of ids.
BallotWithTimestamp(ts, rank) == ts * Ranks + rank

NoProposal == [ballot |-> BallotNone, mutation |-> NoMutation]

Proposal == [ballot : Nat \ {0}, mutation : Mutation]

PaxosStates ==
    [promised  : Nat,
     accepted  : Proposal \cup {NoProposal},
     committed : Proposal \cup {NoProposal}]

PaxosStateNew ==
    [promised |-> BallotNone, accepted |-> NoProposal, committed |-> NoProposal]

-----------------------------------------------------------------------------
\* Phase 1b.  The answer also carries accepted and committed, whether or not
\* the promise is granted.

Promises(s, b) == b >= s.promised

Prepare(s, b) == IF b > s.promised THEN [s EXCEPT !.promised = b] ELSE s

\* Phase 2b.

\* Mutant: compares with the last accepted ballot instead of the promise.
AcceptsBelowPromise(s, p) == p.ballot >= s.accepted.ballot

Accepts(s, p) == p.ballot >= s.promised

Propose(s, p) ==
    IF Accepts(s, p) THEN [s EXCEPT !.promised = p.ballot, !.accepted = p] ELSE s

\* Phase 3.  The commit only advances; an accepted proposal that is not newer
\* than the commit is cleared, and the promise is left alone.

NewestCommit(s, p) == IF p.ballot > s.committed.ballot THEN p ELSE s.committed

\* Mutant: forgets to clear the accepted proposal.
CommitKeepsAccepted(s, p) == [s EXCEPT !.committed = NewestCommit(s, p)]

Commit(s, p) ==
    [s EXCEPT !.committed = NewestCommit(s, p),
              !.accepted  = IF @.ballot <= NewestCommit(s, p).ballot
                              THEN NoProposal ELSE @]

HasInProgress(s) ==
    /\ s.accepted # NoProposal
    /\ s.accepted.ballot > s.committed.ballot
=============================================================================
