---------------------------- MODULE PaxosRecovery ----------------------------
(***************************************************************************)
(* Paxos with replicas backed by PaxosStorage (paxos/storage.rs): every    *)
(* handler also writes the partition's row of system.paxos, a replica may  *)
(* restart and recover() from that row, and PaxosRepair (paxos/repair.rs)  *)
(* drives what it finds there to completion with a call of execute_cas.    *)
(*                                                                         *)
(* The row has one cell per column, reconciled by timestamp               *)
(* (memtable/partition.rs).  proposal_ballot and proposal are always       *)
(* written together at one timestamp, and so are most_recent_commit_at     *)
(* and most_recent_commit: each pair is one cell here.                     *)
(***************************************************************************)
EXTENDS Paxos, Integers

CONSTANTS
    Repair,         \* the calls made by PaxosRepair, a subset of Cas
    TruncatedRank,  \* rank of the node id whose upper ten bytes are zeroed
    MaxRestarts,    \* bound: restarts of a replica
    MaxRestarted,   \* bound: replicas that restart
    MaxFailures     \* bound: failed writes of system.paxos

ASSUME RepairAssumption == Repair \subseteq Cas
ASSUME TruncatedRankAssumption ==
    /\ TruncatedRank \in [0 .. Ranks - 1 -> 0 .. Ranks - 1]
    /\ TruncatedRank[0] = 0

VARIABLES
    system_paxos,  \* [Replica -> row]
    restarts,      \* [Replica -> 0..MaxRestarts]
    unsaved        \* replicas one of whose writes to system.paxos failed

storage == <<system_paxos, restarts, unsaved>>

-----------------------------------------------------------------------------
Timestamp(b) == b \div Ranks

LiveCell(ts, v) == [timestamp |-> ts, is_tombstone |-> FALSE, value |-> v]

Tombstone(ts, none) == [timestamp |-> ts, is_tombstone |-> TRUE, value |-> none]

\* Mutant: a tombstone wins over any timestamp.
MergeWithTombstone(self, other) ==
    IF other.timestamp > self.timestamp \/ other.is_tombstone THEN other ELSE self

\* Cell::merge_with: the newer timestamp wins, then a tombstone, then the
\* cell that is already there.
MergeWith(self, other) ==
    IF \/ other.timestamp > self.timestamp
       \/ /\ other.timestamp = self.timestamp
          /\ other.is_tombstone /\ ~self.is_tombstone
      THEN other ELSE self

EmptyRow ==
    [in_progress_ballot |-> Tombstone(0, BallotNone),
     proposal           |-> Tombstone(0, NoProposal),
     most_recent_commit |-> Tombstone(0, NoProposal)]

SavePromise(row, b) ==
    [row EXCEPT !.in_progress_ballot = MergeWith(@, LiveCell(Timestamp(b), b))]

SaveProposal(row, p) ==
    [row EXCEPT !.proposal = MergeWith(@, LiveCell(Timestamp(p.ballot), p))]

\* Mutant: the proposal is cleared, the commit not recorded.
SaveCommitCleared(row, p) ==
    [row EXCEPT !.in_progress_ballot = MergeWith(@, Tombstone(Timestamp(p.ballot), BallotNone)),
                !.proposal = MergeWith(@, Tombstone(Timestamp(p.ballot), NoProposal))]

SaveCommit(row, p) ==
    LET ts == Timestamp(p.ballot) IN
    [in_progress_ballot |-> MergeWith(row.in_progress_ballot, Tombstone(ts, BallotNone)),
     proposal           |-> MergeWith(row.proposal, Tombstone(ts, NoProposal)),
     most_recent_commit |-> MergeWith(row.most_recent_commit, LiveCell(ts, p))]

\* uuid_to_ballot(ballot_to_uuid(b)): the timestamp survives, of the node id
\* only the low six bytes.
RestoredBallot(b) == BallotWithTimestamp(Timestamp(b), TruncatedRank[b % Ranks])

RestoredProposal(p) == [p EXCEPT !.ballot = RestoredBallot(@)]

LoadState(row) ==
    [promised  |-> RestoredBallot(row.in_progress_ballot.value),
     accepted  |-> RestoredProposal(row.proposal.value),
     committed |-> RestoredProposal(row.most_recent_commit.value)]

\* load_all_uncommitted and recover: a state without an in-progress proposal
\* is not loaded, its promise and its commit included.
Recovered(row) ==
    IF HasInProgress(LoadState(row)) THEN LoadState(row) ELSE PaxosStateNew

-----------------------------------------------------------------------------
\* A handler writes the row and only warns when the write fails.
Save(r, row) ==
    /\ UNCHANGED restarts
    /\ \/ /\ system_paxos' = [system_paxos EXCEPT ![r] = row]
          /\ UNCHANGED unsaved
       \/ /\ Cardinality(unsaved) < MaxFailures
          /\ unsaved' = unsaved \cup {r}
          /\ UNCHANGED system_paxos

StoredPrepare(c, r) ==
    /\ HandlePrepare(c, r)
    /\ IF Promises(states[r], ballot[c])
         THEN Save(r, SavePromise(system_paxos[r], ballot[c]))
         ELSE UNCHANGED storage

StoredPropose(c, r) ==
    /\ HandlePropose(c, r)
    /\ IF Accepts(states[r], ProposalOf(c))
         THEN Save(r, SaveProposal(system_paxos[r], ProposalOf(c)))
         ELSE UNCHANGED storage

StoredCommit(c, r) ==
    /\ HandleCommit(c, r)
    /\ Save(r, SaveCommit(system_paxos[r], ProposalOf(c)))

Restart(r) ==
    /\ restarts[r] < MaxRestarts
    /\ Cardinality({s \in Replica \ {r} : restarts[s] > 0}) < MaxRestarted
    /\ restarts' = [restarts EXCEPT ![r] = @ + 1]
    /\ states' = [states EXCEPT ![r] = Recovered(system_paxos[r])]
    /\ UNCHANGED <<pc, mutation, attempts, ballot, heard, acks, in_progress, clock,
                   votes, proposed, system_paxos, unsaved>>

\* repair_single: execute_cas with the mutation found in the row, and a
\* condition that always holds.
RepairUncommitted(c, r) ==
    /\ HasInProgress(LoadState(system_paxos[r]))
    /\ Invoke(c, LoadState(system_paxos[r]).accepted.mutation)
    /\ UNCHANGED storage

StoredStep(c) ==
    \/ c \notin Repair /\ Invoke(c, c) /\ UNCHANGED storage
    \/ c \notin Repair /\ ConditionNotMet(c) /\ UNCHANGED storage
    \/ c \in Repair /\ \E r \in Replica : RepairUncommitted(c, r)
    \/ LocalStep(c) /\ UNCHANGED storage
    \/ \E r \in Replica : StoredPrepare(c, r)
    \/ \E r \in Replica : StoredPropose(c, r)
    \/ \E r \in Replica : StoredCommit(c, r)

RecoveryInit ==
    /\ Init
    /\ system_paxos = [r \in Replica |-> EmptyRow]
    /\ restarts = [r \in Replica |-> 0]
    /\ unsaved = {}

RecoveryNext ==
    \/ \E c \in Cas : StoredStep(c)
    \/ \E r \in Replica : Restart(r)

RecoverySpec == RecoveryInit /\ [][RecoveryNext]_<<vars, storage>>

-----------------------------------------------------------------------------
\* p shares its microsecond with no other proposal.
Untied(p) ==
    \A q \in proposed : Timestamp(q.ballot) = Timestamp(p.ballot) => q = p

\* "State is persisted locally in the system.paxos table to ensure node
\* restarts do not lose accepted proposals" (transactions_and_consensus.md:14):
\* an accepted proposal alone in its microsecond comes back from the row, as
\* long as the row's writes succeeded and the replica had not restarted before.
AcceptedIsStored ==
    \A r \in Replica \ unsaved :
        LET p == states[r].accepted IN
        (p # NoProposal /\ restarts[r] = 0 /\ Untied(p))
            => Recovered(system_paxos[r]).accepted = RestoredProposal(p)

\* The same without the proviso on microseconds, as the document states it.
AcceptedSurvivesRestart ==
    \A r \in Replica \ unsaved :
        LET p == states[r].accepted IN
        (p # NoProposal /\ restarts[r] = 0)
            => Recovered(system_paxos[r]).accepted = RestoredProposal(p)

\* A CAS reported as a success is in the row of every replica that could write
\* it, whatever restarts come between: save_commit's cells give way only to a
\* later ballot's.
SuccessIsStored ==
    \A c \in Cas : pc[c] = "Success" =>
        LET own == [ballot |-> ballot[c], mutation |-> mutation[c]] IN
        Untied(own) =>
            \A r \in Replica \ unsaved :
                LET stored == LoadState(system_paxos[r]).committed IN
                \/ stored = RestoredProposal(own)
                \/ Timestamp(stored.ballot) > Timestamp(own.ballot)

\* "A node must not accept a proposal with a ballot lower than promised"
\* (state.rs:31): after r has promised c's ballot it accepts nothing older.
PromiseIsKept ==
    [][\A r \in Replica, c \in Cas :
          (pc[c] = "prepare" /\ r \in acks[c])
              => \A p \in votes'[r] \ votes[r] : p.ballot >= ballot[c]]_<<vars, storage>>

\* "no committed value is ever overwritten" (adrs/011-paxos-recovery.md): a
\* repair does not bring back a mutation after another one was committed over
\* it.
RepairKeepsOrder ==
    \A c \in Repair : \A p, q \in proposed :
        (/\ pc[c] \in {"propose", "commit", "Success"} /\ in_progress[c] = NoProposal
         /\ p.mutation = mutation[c] /\ q.mutation # mutation[c]
         /\ p.ballot < q.ballot /\ q.ballot < ballot[c])
            => \A r \in Replica : states[r].committed # q
=============================================================================
