-------------------------------- MODULE Paxos --------------------------------
(***************************************************************************)
(* Lightweight transactions on one partition: concurrent calls of          *)
(* PaxosCoordinator::execute_cas against the PaxosReplicas they share      *)
(* (paxos/coordinator.rs).                                                 *)
(*                                                                         *)
(* A call goes through its replicas in the order of its own Vec, one       *)
(* handle_prepare, handle_propose or handle_commit at a time.  Each        *)
(* handler holds the partition's DashMap entry from beginning to end, so   *)
(* it is one step; between two handlers of a call any other call may run.  *)
(* All the rest of execute_cas touches only the call's own variables.      *)
(***************************************************************************)
EXTENDS PaxosState, FiniteSets

CONSTANTS
    Replica,                \* the replicas of the partition
    Cas,                    \* the calls of execute_cas
    quorum_size,
    max_contention_retries,
    NodeRank,               \* [Cas -> 0..Ranks-1], the call's coordinator node
    Position,               \* [Cas -> [Replica -> Nat]], its Vec of replicas
    MaxClock                \* bound: the last microsecond a clock shows

ASSUME QuorumAssumption == quorum_size \in Nat \ {0}
ASSUME RetriesAssumption == max_contention_retries \in Nat \ {0}
ASSUME NodeRankAssumption == NodeRank \in [Cas -> 0 .. Ranks - 1]
ASSUME MutationAssumption == Cas \subseteq Mutation
ASSUME ReplicaAssumption == IsFiniteSet(Replica)
ASSUME ClockAssumption == MaxClock \in Nat \ {0}

VARIABLES
    states,      \* [Replica -> PaxosState], PaxosReplica.states at the key
    pc,          \* where each call is, or the CasResult it returned
    mutation,    \* the mutation each call was given
    attempts,    \* execute_cas: attempts
    ballot,      \* execute_cas: ballot of the current round
    heard,       \* replicas already called in the current phase
    acks,        \* replicas that promised (accepted) in the current phase
    in_progress, \* newest in-progress proposal among the promises so far
    clock,       \* [0..Ranks-1 -> Nat], last reading of each node's clock
    votes,       \* history: the proposals each replica has accepted
    proposed     \* history: the proposals sent to replicas

vars == <<states, pc, mutation, attempts, ballot, heard, acks, in_progress,
          clock, votes, proposed>>

Results == {"Success", "ConditionNotMet", "ContentionAborted"}

Phases == {"idle", "loop", "prepare", "read", "propose", "commit"}

Init ==
    /\ states = [r \in Replica |-> PaxosStateNew]
    /\ pc = [c \in Cas |-> "idle"]
    /\ mutation = [c \in Cas |-> NoMutation]
    /\ attempts = [c \in Cas |-> 0]
    /\ ballot = [c \in Cas |-> BallotNone]
    /\ heard = [c \in Cas |-> {}]
    /\ acks = [c \in Cas |-> {}]
    /\ in_progress = [c \in Cas |-> NoProposal]
    /\ clock = [n \in 0 .. Ranks - 1 |-> 1]
    /\ votes = [r \in Replica |-> {}]
    /\ proposed = {}

-----------------------------------------------------------------------------
Goto(c, phase) ==
    /\ pc' = [pc EXCEPT ![c] = phase]
    /\ heard' = [heard EXCEPT ![c] = {}]
    /\ acks' = [acks EXCEPT ![c] = {}]

MoveTo(c, phase) ==
    /\ Goto(c, phase)
    /\ UNCHANGED <<states, mutation, attempts, ballot, in_progress, clock, votes, proposed>>

\* r is the next replica of c's Vec in the current phase.
NextReplica(c, r) ==
    /\ r \notin heard[c]
    /\ \A s \in Replica \ heard[c] : Position[c][r] <= Position[c][s]

PhaseOver(c, phase) == pc[c] = phase /\ heard[c] = Replica

\* The mutation of the round: the adopted one, or the caller's own.
ProposalOf(c) ==
    [ballot   |-> ballot[c],
     mutation |-> IF in_progress[c] # NoProposal THEN in_progress[c].mutation ELSE mutation[c]]

\* The caller invokes execute_cas with mutation m.
Invoke(c, m) ==
    /\ pc[c] = "idle"
    /\ mutation' = [mutation EXCEPT ![c] = m]
    /\ pc' = [pc EXCEPT ![c] = "loop"]
    /\ UNCHANGED <<states, attempts, ballot, heard, acks, in_progress, clock, votes, proposed>>

\* Ballot::new at the first attempt; a retry adds its number to the reading.
\* The clock of a node is assumed never to go back.

BallotTimestamp(reading, attempt) ==
    IF attempt = 1 THEN reading ELSE reading + attempt

StartRoundWith(c, attempt) ==
    /\ attempts' = [attempts EXCEPT ![c] = attempt]
    /\ \E now \in clock[NodeRank[c]] .. MaxClock :
          /\ clock' = [clock EXCEPT ![NodeRank[c]] = now]
          /\ ballot' = [ballot EXCEPT ![c] =
                 BallotWithTimestamp(BallotTimestamp(now, attempts[c] + 1), NodeRank[c])]
    /\ in_progress' = [in_progress EXCEPT ![c] = NoProposal]
    /\ Goto(c, "prepare")
    /\ UNCHANGED <<states, mutation, votes, proposed>>

\* Mutant: rounds are not counted.
StartRoundUncounted(c) ==
    /\ pc[c] = "loop" /\ attempts[c] < max_contention_retries
    /\ StartRoundWith(c, attempts[c])

StartRound(c) ==
    /\ pc[c] = "loop" /\ attempts[c] < max_contention_retries
    /\ StartRoundWith(c, attempts[c] + 1)

AbortContention(c) ==
    /\ pc[c] = "loop" /\ attempts[c] = max_contention_retries
    /\ MoveTo(c, "ContentionAborted")

\* max_by_key over the answers' in_progress, rejecting answers included; of
\* equal ballots the last one stays.
Newest(seen, accepted) ==
    IF accepted # NoProposal /\ accepted.ballot >= seen.ballot THEN accepted ELSE seen

\* Mutant: the answer of a replica that rejects the prepare is not looked at.
ReportedIfGranted(c, r) ==
    IF Promises(states[r], ballot[c]) THEN states[r].accepted ELSE NoProposal

Reported(c, r) == states[r].accepted

HandlePrepare(c, r) ==
    /\ pc[c] = "prepare" /\ NextReplica(c, r)
    /\ states' = [states EXCEPT ![r] = Prepare(@, ballot[c])]
    /\ heard' = [heard EXCEPT ![c] = @ \cup {r}]
    /\ acks' = [acks EXCEPT ![c] = IF Promises(states[r], ballot[c]) THEN @ \cup {r} ELSE @]
    /\ in_progress' = [in_progress EXCEPT ![c] = Newest(@, Reported(c, r))]
    /\ UNCHANGED <<pc, mutation, attempts, ballot, clock, votes, proposed>>

\* Mutant: one answer fewer is enough.
HasQuorumLess(c) == Cardinality(acks[c]) >= quorum_size - 1

HasQuorum(c) == Cardinality(acks[c]) >= quorum_size

NoQuorum(c, phase) ==
    /\ PhaseOver(c, phase) /\ ~HasQuorum(c)
    /\ MoveTo(c, "loop")

BeginPropose(c) ==
    /\ proposed' = proposed \cup {ProposalOf(c)}
    /\ Goto(c, "propose")
    /\ UNCHANGED <<states, mutation, attempts, ballot, in_progress, clock, votes>>

AdoptInProgress(c) ==
    /\ PhaseOver(c, "prepare") /\ HasQuorum(c)
    /\ in_progress[c] # NoProposal
    /\ BeginPropose(c)

AwaitRead(c) ==
    /\ PhaseOver(c, "prepare") /\ HasQuorum(c)
    /\ in_progress[c] = NoProposal
    /\ MoveTo(c, "read")

\* read_current_fn().await and condition_fn, both the caller's: either verdict.
ConditionMet(c) == pc[c] = "read" /\ BeginPropose(c)

ConditionNotMet(c) ==
    /\ pc[c] = "read"
    /\ MoveTo(c, "ConditionNotMet")

HandlePropose(c, r) ==
    /\ pc[c] = "propose" /\ NextReplica(c, r)
    /\ states' = [states EXCEPT ![r] = Propose(@, ProposalOf(c))]
    /\ heard' = [heard EXCEPT ![c] = @ \cup {r}]
    /\ IF Accepts(states[r], ProposalOf(c))
         THEN /\ acks' = [acks EXCEPT ![c] = @ \cup {r}]
              /\ votes' = [votes EXCEPT ![r] = @ \cup {ProposalOf(c)}]
         ELSE UNCHANGED <<acks, votes>>
    /\ UNCHANGED <<pc, mutation, attempts, ballot, in_progress, clock, proposed>>

AcceptedByQuorum(c) ==
    /\ PhaseOver(c, "propose") /\ HasQuorum(c)
    /\ MoveTo(c, "commit")

HandleCommit(c, r) ==
    /\ pc[c] = "commit" /\ NextReplica(c, r)
    /\ states' = [states EXCEPT ![r] = Commit(@, ProposalOf(c))]
    /\ heard' = [heard EXCEPT ![c] = @ \cup {r}]
    /\ UNCHANGED <<pc, mutation, attempts, ballot, acks, in_progress, clock, votes, proposed>>

\* Mutant: finishing an adopted proposal is reported as success.
AfterCommitSuccess(c) == "Success"

\* A round that finished somebody's proposal retries the caller's own CAS.
AfterCommit(c) == IF in_progress[c] # NoProposal THEN "loop" ELSE "Success"

EndRound(c) ==
    /\ PhaseOver(c, "commit")
    /\ MoveTo(c, AfterCommit(c))

\* The steps of a call that touch no replica.
LocalStep(c) ==
    \/ StartRound(c)
    \/ AbortContention(c)
    \/ NoQuorum(c, "prepare")
    \/ AdoptInProgress(c)
    \/ AwaitRead(c)
    \/ ConditionMet(c)
    \/ NoQuorum(c, "propose")
    \/ AcceptedByQuorum(c)
    \/ EndRound(c)

Step(c) ==
    \/ Invoke(c, c)
    \/ LocalStep(c)
    \/ ConditionNotMet(c)
    \/ \E r \in Replica : HandlePrepare(c, r)
    \/ \E r \in Replica : HandlePropose(c, r)
    \/ \E r \in Replica : HandleCommit(c, r)

AllReturned == \A c \in Cas : pc[c] \in Results

Next == (\E c \in Cas : Step(c)) \/ (AllReturned /\ UNCHANGED vars)

Spec == Init /\ [][Next]_vars

\* Every call is a task of the runtime, which keeps polling it, and whatever
\* it awaits (the backoff sleep, the read) completes.
FairSpec == Spec /\ \A c \in Cas : WF_vars(Step(c))

-----------------------------------------------------------------------------
\* The state of every replica and every call is well formed.
TypeOK ==
    /\ states \in [Replica -> PaxosStates]
    /\ pc \in [Cas -> Phases \cup Results]
    /\ mutation \in [Cas -> Mutation \cup {NoMutation}]
    /\ attempts \in [Cas -> 0 .. max_contention_retries]
    /\ ballot \in [Cas -> Nat]
    /\ heard \in [Cas -> SUBSET Replica]
    /\ acks \in [Cas -> SUBSET Replica]
    /\ in_progress \in [Cas -> Proposal \cup {NoProposal}]
    /\ clock \in [0 .. Ranks - 1 -> Nat \ {0}]
    /\ votes \in [Replica -> SUBSET Proposal]
    /\ proposed \in SUBSET Proposal

\* "promised >= accepted >= committed by ballot order" (state.rs:29), although
\* commit() never looks at the promise: a replica commits only proposals it has
\* been asked to prepare, and keeps only accepted proposals newer than the
\* commit.
BallotOrder ==
    \A r \in Replica :
        LET s == states[r] IN
        /\ s.promised >= s.accepted.ballot
        /\ s.promised >= s.committed.ballot
        /\ s.accepted # NoProposal => s.accepted.ballot > s.committed.ballot

\* A ballot is "the unique, totally-ordered identifier for a proposal"
\* (ballot.rs:36): no two proposals of execute_cas share one.
UniqueBallots ==
    \A p, q \in proposed : p.ballot = q.ballot => p = q

\* Paxos safety of execute_cas ("must adopt", coordinator.rs:374-388): a
\* proposal with another mutation and a higher ballot exists only when every
\* replica that accepted the older proposal has committed it or a newer one.
\* So no accepted mutation is dropped or overtaken while it is undecided.
NoRivalProposal ==
    \A r \in Replica : \A p \in votes[r] : \A q \in proposed :
        (p.ballot < q.ballot /\ p.mutation # q.mutation)
            => states[r].committed.ballot >= p.ballot

\* What a replica has committed was accepted by quorum_size replicas, whichever
\* call sent the commit and however many rounds adopted the mutation before.
CommittedIsChosen ==
    \A r \in Replica :
        LET p == states[r].committed IN
        p # NoProposal
            => Cardinality({s \in Replica : p \in votes[s]}) >= quorum_size

\* CasResult::Success means the mutation was applied: every replica has
\* committed the call's own mutation, or the commit of a later ballot.
SuccessIsDurable ==
    \A c \in Cas : pc[c] = "Success" =>
        \A r \in Replica :
            \/ states[r].committed = [ballot |-> ballot[c], mutation |-> mutation[c]]
            \/ states[r].committed.ballot > ballot[c]

\* Compare and set is one atomic step: once a call has a quorum of promises
\* and reads the row, no replica accepts a proposal older than its ballot any
\* more, so the row it read does not change under it ("a quorum that won't
\* accept older ballots", coordinator.rs:392-394).
PastPrepare(c) == pc[c] \in {"read", "propose", "commit"}

NoVoteBehindARead ==
    [][\A r \in Replica, c \in Cas :
          PastPrepare(c) => \A p \in votes'[r] \ votes[r] : p.ballot >= ballot[c]]_vars

\* Every call returns: rounds are bounded by max_contention_retries and no
\* handler of a replica blocks (coordinator.rs:322, 463-467).
Termination == \A c \in Cas : <>(pc[c] \in Results)

\* Linearizable CAS (docs/rewrite/transactions_and_consensus.md:4): a call that
\* reports that its condition failed did not have its mutation decided.
RefusedIsNotApplied ==
    \A c \in Cas : pc[c] = "ConditionNotMet" =>
        \A r \in Replica : states[r].committed.mutation # mutation[c]

\* The calls are those of different coordinator nodes.
OneCasPerNode == \A c, d \in Cas : NodeRank[c] = NodeRank[d] => c = d
=============================================================================
