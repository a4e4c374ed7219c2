------------------------ MODULE PaxosRecoveryProofs -------------------------
(***************************************************************************)
(* What system.paxos holds, for any number of replicas, calls, restarts    *)
(* and failed writes, and any width of the node ids that survive a row:    *)
(* the theorems about AcceptedIsStored and SuccessIsStored, for calls of   *)
(* different coordinator nodes.                                            *)
(*                                                                         *)
(* The argument.  A proposal has the ballot of the call that makes it,     *)
(* restarts or not, so ballots name their calls.  A replica that has not   *)
(* restarted has promised every ballot proposed so far, and therefore      *)
(* accepts proposals in the order of their ballots; as long as its writes  *)
(* succeed, its row has the microsecond of its commit, and the cell of a   *)
(* proposal alone in its microsecond is overwritten by a later microsecond *)
(* only.  The cell of a commit gives way only to a later microsecond,      *)
(* whatever a restart makes of the replica's state.                        *)
(***************************************************************************)
EXTENDS PaxosRecovery, PaxosProofs

\* A leaf is for Zenon, unless it names another prover.
USE Zenon

-----------------------------------------------------------------------------
\* Timestamps.

\* A ballot is its timestamp and its rank.
LEMMA TimestampSplits ==
    ASSUME NEW b \in Nat
    PROVE  /\ Timestamp(b) \in Nat /\ b % Ranks \in 0 .. Ranks - 1
           /\ b = BallotWithTimestamp(Timestamp(b), b % Ranks)
BY SMT, RanksAssumption DEF Timestamp, BallotWithTimestamp

\* The timestamp of a ballot is the one it was made with.
LEMMA TimestampOf ==
    ASSUME NEW t \in Nat, NEW k \in 0 .. Ranks - 1
    PROVE  /\ BallotWithTimestamp(t, k) \in Nat
           /\ Timestamp(BallotWithTimestamp(t, k)) = t
<1> DEFINE b == BallotWithTimestamp(t, k)
           u == Timestamp(b)
<1>0. k \in Nat /\ Ranks \in Nat
  BY SMT, RanksAssumption
<1>1. b \in Nat
  BY <1>0, BallotIsNat
<1>2. u \in Nat /\ b % Ranks \in 0 .. Ranks - 1 /\ b = BallotWithTimestamp(u, b % Ranks)
  BY <1>1, TimestampSplits
<1>3. ~(t < u) /\ ~(u < t)
  <2>1. t < u => b < b
    BY <1>2, BallotLexicographic
  <2>2. u < t => b < b
    BY <1>2, BallotLexicographic
  <2> HIDE DEF b, u
  <2> QED
    BY SMT, <1>1, <2>1, <2>2
<1> HIDE DEF b, u
<1>4. u = t
  BY SMT, <1>2, <1>3
<1> QED
  BY <1>1, <1>4 DEF b, u

\* An older ballot has no later timestamp.
LEMMA TimestampMonotone ==
    ASSUME NEW a \in Nat, NEW b \in Nat, a <= b
    PROVE  Timestamp(a) <= Timestamp(b)
<1>1. /\ Timestamp(a) \in Nat /\ Timestamp(b) \in Nat
      /\ a % Ranks \in 0 .. Ranks - 1 /\ b % Ranks \in 0 .. Ranks - 1
      /\ a = BallotWithTimestamp(Timestamp(a), a % Ranks)
      /\ b = BallotWithTimestamp(Timestamp(b), b % Ranks)
  BY TimestampSplits
<1>2. Timestamp(b) < Timestamp(a) => b < a
  BY <1>1, BallotLexicographic
<1> QED
  BY SMT, <1>1, <1>2

\* What a row gives back of a ballot: its timestamp, and nothing of none().
LEMMA RestoredFacts ==
    ASSUME NEW b \in Nat
    PROVE  /\ RestoredBallot(b) \in Nat
           /\ Timestamp(RestoredBallot(b)) = Timestamp(b)
           /\ RestoredBallot(0) = 0
           /\ Timestamp(b) >= 1 => RestoredBallot(b) # 0
<1>1. Timestamp(b) \in Nat /\ TruncatedRank[b % Ranks] \in 0 .. Ranks - 1
  BY TimestampSplits, TruncatedRankAssumption
<1>2. RestoredBallot(b) \in Nat /\ Timestamp(RestoredBallot(b)) = Timestamp(b)
  BY <1>1, TimestampOf DEF RestoredBallot
<1>3. Timestamp(0) = 0 /\ 0 % Ranks = 0
  BY SMT, RanksAssumption DEF Timestamp
<1>4. BallotWithTimestamp(0, 0) = 0
  BY SMT, RanksAssumption DEF BallotWithTimestamp
<1>5. RestoredBallot(0) = 0
  BY <1>3, <1>4, TruncatedRankAssumption DEF RestoredBallot
<1>6. Timestamp(b) >= 1 => RestoredBallot(b) # 0
  BY SMT, <1>1, <1>2, <1>3
<1> QED
  BY <1>2, <1>5, <1>6

-----------------------------------------------------------------------------
\* Rows.

Kept == Proposal \cup {NoProposal}

CellOf(V) == [timestamp : Nat, is_tombstone : BOOLEAN, value : V]

Row == [in_progress_ballot : CellOf(Nat), proposal : CellOf(Kept), most_recent_commit : CellOf(Kept)]

\* A live cell has the timestamp of its ballot, and a cleared proposal is no later than
\* the commit that cleared it.
RowOf(row, P) ==
    /\ row.most_recent_commit.value \in P \cup {NoProposal}
    /\ row.most_recent_commit.timestamp = Timestamp(row.most_recent_commit.value.ballot)
    /\ row.proposal.value \in P \cup {NoProposal}
    /\ row.proposal.is_tombstone => row.proposal.timestamp <= row.most_recent_commit.timestamp
    /\ ~row.proposal.is_tombstone =>
          row.proposal.value \in P /\ row.proposal.timestamp = Timestamp(row.proposal.value.ballot)

\* The timestamp of a proposal is a number.
LEMMA ProposalTimestamp ==
    ASSUME NEW p \in Kept
    PROVE  p.ballot \in Nat /\ Timestamp(p.ballot) \in Nat /\ Timestamp(NoProposal.ballot) = 0
<1>1. p.ballot \in Nat
  BY SMT DEF Kept, Proposal, NoProposal, BallotNone
<1>2. Timestamp(0) = 0
  BY SMT, RanksAssumption DEF Timestamp
<1> QED
  BY <1>1, <1>2, TimestampSplits DEF NoProposal, BallotNone

\* What MergeWith makes of two cells.
LEMMA MergeFacts ==
    ASSUME NEW V, NEW self \in CellOf(V), NEW other \in CellOf(V)
    PROVE  /\ MergeWith(self, other) \in CellOf(V)
           /\ other.timestamp > self.timestamp => MergeWith(self, other) = other
           /\ other.timestamp < self.timestamp => MergeWith(self, other) = self
           /\ ~other.is_tombstone /\ ~(other.timestamp > self.timestamp) => MergeWith(self, other) = self
           /\ MergeWith(self, other) \in {self, other}
<1>1. other.timestamp \in Nat /\ self.timestamp \in Nat
  BY DEF CellOf
<1>2. other.timestamp < self.timestamp => ~(other.timestamp > self.timestamp) /\ other.timestamp # self.timestamp
  BY SMT, <1>1
<1> QED
  BY <1>2 DEF MergeWith

\* The cells a handler writes.
LEMMA CellTypes ==
    ASSUME NEW p \in Proposal, NEW b \in Nat
    PROVE  /\ LiveCell(Timestamp(b), b) \in CellOf(Nat)
           /\ Tombstone(Timestamp(b), BallotNone) \in CellOf(Nat)
           /\ LiveCell(Timestamp(p.ballot), p) \in CellOf(Kept)
           /\ Tombstone(Timestamp(p.ballot), NoProposal) \in CellOf(Kept)
<1>1. p \in Kept /\ NoProposal \in Kept
  BY DEF Kept
<1>2. Timestamp(b) \in Nat /\ Timestamp(p.ballot) \in Nat /\ BallotNone \in Nat
  <2>1. BallotNone \in Nat
    BY SMT DEF BallotNone
  <2> QED
    BY <1>1, <2>1, ProposalTimestamp, TimestampSplits
<1> HIDE DEF Kept
<1> QED
  BY <1>1, <1>2 DEF LiveCell, Tombstone, CellOf

\* save_promise leaves the other columns alone.
LEMMA PromiseWritten ==
    ASSUME NEW row \in Row, NEW b \in Nat
    PROVE  /\ SavePromise(row, b) \in Row
           /\ SavePromise(row, b).proposal = row.proposal
           /\ SavePromise(row, b).most_recent_commit = row.most_recent_commit
<1> DEFINE c == MergeWith(row.in_progress_ballot, LiveCell(Timestamp(b), b))
<1>1. row.in_progress_ballot \in CellOf(Nat)
  BY DEF Row
<1>2. LiveCell(Timestamp(b), b) \in CellOf(Nat)
  <2>1. Timestamp(b) \in Nat
    BY TimestampSplits
  <2> QED
    BY <2>1 DEF LiveCell, CellOf
<1>3. c \in CellOf(Nat)
  BY <1>1, <1>2, MergeFacts
<1>4. SavePromise(row, b) = [row EXCEPT !.in_progress_ballot = c]
  BY DEF SavePromise
<1> HIDE DEF c
<1> QED
  BY <1>3, <1>4 DEF Row

\* save_proposal writes the proposal, unless the row has one that is as late.
LEMMA ProposalWritten ==
    ASSUME NEW P, NEW row \in Row, RowOf(row, P), NEW p \in Proposal, p \in P
    PROVE  /\ SaveProposal(row, p) \in Row /\ RowOf(SaveProposal(row, p), P)
           /\ SaveProposal(row, p).most_recent_commit = row.most_recent_commit
           /\ Timestamp(p.ballot) > row.proposal.timestamp =>
                 SaveProposal(row, p).proposal = LiveCell(Timestamp(p.ballot), p)
           /\ ~(Timestamp(p.ballot) > row.proposal.timestamp) => SaveProposal(row, p).proposal = row.proposal
<1> DEFINE l == LiveCell(Timestamp(p.ballot), p)
           c == MergeWith(row.proposal, l)
<1>1. row.proposal \in CellOf(Kept)
  BY DEF Row
<1>2. l \in CellOf(Kept) /\ l.timestamp = Timestamp(p.ballot) /\ l.value = p /\ l.is_tombstone = FALSE
  <2>1. l \in CellOf(Kept)
    <3>1. p.ballot \in Nat
      BY DEF Proposal
    <3> QED
      BY <3>1, CellTypes
  <2> QED
    BY <2>1 DEF LiveCell
<1> HIDE DEF l
<1>3. /\ c \in CellOf(Kept) /\ (l.timestamp > row.proposal.timestamp => c = l)
      /\ (~l.is_tombstone /\ ~(l.timestamp > row.proposal.timestamp) => c = row.proposal) /\ c \in {row.proposal, l}
  <2> DEFINE old == row.proposal
  <2>1. old \in CellOf(Kept)
    BY <1>1
  <2> HIDE DEF old
  <2>2. /\ MergeWith(old, l) \in CellOf(Kept) /\ (l.timestamp > old.timestamp => MergeWith(old, l) = l)
        /\ (~l.is_tombstone /\ ~(l.timestamp > old.timestamp) => MergeWith(old, l) = old) /\ MergeWith(old, l) \in {old, l}
    BY <1>2, <2>1, MergeFacts
  <2> QED
    BY <2>2 DEF old
<1>4. SaveProposal(row, p) = [row EXCEPT !.proposal = c]
  BY DEF SaveProposal, l
<1> HIDE DEF c
<1>5. /\ SaveProposal(row, p) \in Row /\ SaveProposal(row, p).proposal = c
      /\ SaveProposal(row, p).most_recent_commit = row.most_recent_commit
  BY <1>3, <1>4 DEF Row
<1>6. RowOf(SaveProposal(row, p), P)
  BY <1>2, <1>3, <1>5 DEF RowOf
<1> QED
  BY <1>2, <1>3, <1>5, <1>6 DEF l

\* save_commit writes the commit, unless the row has one that is as late, and clears the
\* proposal, unless it is later.
LEMMA CommitWritten ==
    ASSUME NEW P, NEW row \in Row, RowOf(row, P), NEW p \in Proposal, p \in P
    PROVE  /\ SaveCommit(row, p) \in Row /\ RowOf(SaveCommit(row, p), P)
           /\ Timestamp(p.ballot) > row.most_recent_commit.timestamp =>
                 SaveCommit(row, p).most_recent_commit = LiveCell(Timestamp(p.ballot), p)
           /\ ~(Timestamp(p.ballot) > row.most_recent_commit.timestamp) =>
                 SaveCommit(row, p).most_recent_commit = row.most_recent_commit
           /\ Timestamp(p.ballot) < row.proposal.timestamp => SaveCommit(row, p).proposal = row.proposal
<1> DEFINE ts == Timestamp(p.ballot)
           l == LiveCell(ts, p)
           d == Tombstone(ts, NoProposal)
           n == SaveCommit(row, p)
           a == MergeWith(row.in_progress_ballot, Tombstone(ts, BallotNone))
           b == MergeWith(row.proposal, d)
           c == MergeWith(row.most_recent_commit, l)
<1>1. row.proposal \in CellOf(Kept) /\ row.most_recent_commit \in CellOf(Kept) /\ row.in_progress_ballot \in CellOf(Nat)
  BY DEF Row
<1>0. p.ballot \in Nat /\ ts \in Nat
  BY ProposalTimestamp DEF Kept
<1>2. l \in CellOf(Kept) /\ d \in CellOf(Kept) /\ Tombstone(ts, BallotNone) \in CellOf(Nat)
  BY <1>0, CellTypes
<1>3. a \in CellOf(Nat)
  BY <1>1, <1>2, MergeFacts
<1>4. /\ l.timestamp = ts /\ l.value = p /\ l.is_tombstone = FALSE
      /\ d.timestamp = ts /\ d.value = NoProposal /\ d.is_tombstone = TRUE
  BY DEF LiveCell, Tombstone
<1>5. n = [in_progress_ballot |-> a, proposal |-> b, most_recent_commit |-> c]
  BY DEF SaveCommit
<1> HIDE DEF l, d, n, ts, a
<1>6. /\ b \in CellOf(Kept) /\ (d.timestamp < row.proposal.timestamp => b = row.proposal) /\ b \in {row.proposal, d}
      /\ c \in CellOf(Kept) /\ (l.timestamp > row.most_recent_commit.timestamp => c = l)
      /\ (~l.is_tombstone /\ ~(l.timestamp > row.most_recent_commit.timestamp) => c = row.most_recent_commit)
  BY <1>1, <1>2, MergeFacts
<1> HIDE DEF b, c
<1>7. n \in Row /\ n.proposal = b /\ n.most_recent_commit = c
  BY <1>3, <1>5, <1>6 DEF Row
<1>8. (c = l /\ ts > row.most_recent_commit.timestamp) \/ (c = row.most_recent_commit /\ ~(ts > row.most_recent_commit.timestamp))
  BY <1>4, <1>6
<1>9. c.timestamp >= ts /\ c.timestamp >= row.most_recent_commit.timestamp
  <2>1. row.most_recent_commit.timestamp \in Nat
    BY <1>1 DEF CellOf
  <2> QED
    BY SMT, <1>0, <1>4, <1>8, <2>1
<1>10. c.value \in P \cup {NoProposal} /\ c.timestamp = Timestamp(c.value.ballot)
  BY <1>4, <1>8 DEF RowOf, ts
<1>11. b.is_tombstone => b.timestamp <= c.timestamp
  <2>1. /\ row.most_recent_commit.timestamp \in Nat /\ row.proposal.timestamp \in Nat /\ c.timestamp \in Nat
        /\ row.proposal.is_tombstone => row.proposal.timestamp <= row.most_recent_commit.timestamp
    BY <1>1, <1>6 DEF CellOf, RowOf
  <2>2. ts <= c.timestamp
    BY SMT, <1>0, <1>9, <2>1
  <2>3. row.proposal.timestamp <= row.most_recent_commit.timestamp => row.proposal.timestamp <= c.timestamp
    BY SMT, <1>9, <2>1
  <2> QED
    BY <1>4, <1>6, <2>1, <2>2, <2>3
<1>12. /\ b.value \in P \cup {NoProposal}
       /\ ~b.is_tombstone => b.value \in P /\ b.timestamp = Timestamp(b.value.ballot)
  BY <1>4, <1>6 DEF RowOf
<1>13. RowOf(n, P)
  BY <1>7, <1>10, <1>11, <1>12 DEF RowOf
<1> QED
  BY <1>4, <1>6, <1>7, <1>8, <1>13 DEF n, l, ts

-----------------------------------------------------------------------------
\* The invariant.

RowsOK ==
    /\ system_paxos \in [Replica -> Row] /\ restarts \in [Replica -> Nat]
    /\ \A r \in Replica : RowOf(system_paxos[r], proposed)

\* Every proposal was made by the call that owns its ballot, and has a timestamp.
OwnOK ==
    /\ \A c \in Cas : pc[c] \in Active => Timestamp(ballot[c]) >= 1
    /\ \A p \in proposed : Timestamp(p.ballot) >= 1
    /\ \A p \in proposed : \E d \in Cas : Owns(d, p.ballot) /\ Spent(d, p.ballot)
    /\ \A c \in Cas : pc[c] \in {"propose", "commit"} => ProposalOf(c) \in proposed

\* A replica that has not restarted has promised every ballot that it was asked for.
Fresh(r) ==
    /\ states[r].accepted \in proposed \cup {NoProposal}
    /\ states[r].committed \in proposed \cup {NoProposal}
    /\ states[r].accepted # NoProposal => states[r].accepted.ballot > states[r].committed.ballot
    /\ \A q \in proposed : states[r].promised >= q.ballot
    /\ \A c \in Cas : Visited(c, r) => states[r].promised >= ballot[c]
    /\ \A c \in Cas : pc[c] = "propose" => states[r].committed.ballot # ballot[c]

\* p shares its microsecond with no other member of P.
Solo(P, p) == \A q \in P : Timestamp(q.ballot) = Timestamp(p.ballot) => q = p

\* The row of a replica that has not restarted follows its state.
Follows(r) ==
    /\ system_paxos[r].most_recent_commit.timestamp = Timestamp(states[r].committed.ballot)
    /\ states[r].accepted # NoProposal /\ Solo(proposed, states[r].accepted) =>
          system_paxos[r].proposal = LiveCell(Timestamp(states[r].accepted.ballot), states[r].accepted)

Answered(c, r) == pc[c] = "Success" \/ (pc[c] = "commit" /\ r \in heard[c])

\* The row has the commit p, or one of a later microsecond.
Records(row, p) ==
    \/ row.most_recent_commit.value = p
    \/ Timestamp(row.most_recent_commit.value.ballot) > Timestamp(p.ballot)

SavedOK ==
    /\ \A r \in Replica \ unsaved : restarts[r] = 0 => Follows(r)
    /\ \A r \in Replica \ unsaved, c \in Cas :
          Answered(c, r) /\ Solo(proposed, ProposalOf(c)) => Records(system_paxos[r], ProposalOf(c))
    /\ \A c \in Cas : pc[c] = "Success" => in_progress[c] = NoProposal

RecInv == TypeInv /\ RowsOK /\ OwnOK /\ (\A r \in Replica : restarts[r] = 0 => Fresh(r)) /\ SavedOK

\* A step of a call that changes nothing but its own variables.
LEMMA QuietKeeps ==
    ASSUME RecInv, TypeInv', NEW c \in Cas, UNCHANGED <<states, proposed, system_paxos, restarts, unsaved>>,
           \A d \in Cas : d # c => /\ pc'[d] = pc[d] /\ heard'[d] = heard[d] /\ ballot'[d] = ballot[d]
                                   /\ in_progress'[d] = in_progress[d] /\ mutation'[d] = mutation[d],
           pc'[c] \in Active => Timestamp(ballot'[c]) >= 1,
           \A b \in Nat : Spent(c, b) => Spent(c, b)',
           pc'[c] \in {"propose", "commit"} => ProposalOf(c)' \in proposed,
           \A r \in Replica : Visited(c, r)' => Visited(c, r) /\ ballot'[c] = ballot[c],
           pc'[c] # "propose",
           \A r \in Replica : Answered(c, r)' => Answered(c, r) /\ ProposalOf(c)' = ProposalOf(c),
           pc'[c] = "Success" => in_progress'[c] = NoProposal
    PROVE  RecInv'
<1>1. RowsOK'
  BY DEF RecInv, RowsOK
<1>2. \A d \in Cas : d # c => ProposalOf(d)' = ProposalOf(d)
  BY DEF ProposalOf
<1>3. OwnOK'
  <2>1. \A d \in Cas : \A b \in Nat : Spent(d, b) => Spent(d, b)'
    BY DEF Spent
  <2>2. \A d \in Cas : pc'[d] \in {"propose", "commit"} => ProposalOf(d)' \in proposed'
    BY <1>2 DEF RecInv, OwnOK
  <2>3. \A p \in proposed' : \E d \in Cas : Owns(d, p.ballot)' /\ Spent(d, p.ballot)'
    <3>1. \A p \in proposed : p.ballot \in Nat
      BY DEF RecInv, TypeInv, TypeOK, Proposal
    <3> QED
      BY <2>1, <3>1 DEF RecInv, OwnOK, Owns
  <2>4. \A d \in Cas : pc'[d] \in Active => Timestamp(ballot'[d]) >= 1
    BY DEF RecInv, OwnOK
  <2>5. \A p \in proposed' : Timestamp(p.ballot) >= 1
    BY DEF RecInv, OwnOK
  <2> QED
    BY <2>2, <2>3, <2>4, <2>5 DEF OwnOK
<1>4. ASSUME NEW r \in Replica, restarts'[r] = 0 PROVE Fresh(r)'
  <2>1. Fresh(r)
    BY <1>4 DEF RecInv
  <2>2. \A d \in Cas : Visited(d, r)' => Visited(d, r) /\ ballot'[d] = ballot[d]
    BY DEF Visited
  <2>3. \A d \in Cas : pc'[d] = "propose" => pc[d] = "propose" /\ ballot'[d] = ballot[d]
    OBVIOUS
  <2> QED
    BY <2>1, <2>2, <2>3 DEF Fresh
<1>5. SavedOK'
  <2>1. \A r \in Replica : Follows(r)' = Follows(r)
    BY DEF Follows
  <2>2. \A r \in Replica, d \in Cas : Answered(d, r)' => Answered(d, r) /\ ProposalOf(d)' = ProposalOf(d)
    BY <1>2 DEF Answered
  <2>3. \A r \in Replica \ unsaved', d \in Cas :
          Answered(d, r)' /\ Solo(proposed', ProposalOf(d)') => Records(system_paxos'[r], ProposalOf(d)')
    BY <2>2 DEF RecInv, SavedOK
  <2>4. \A d \in Cas : pc'[d] = "Success" => in_progress'[d] = NoProposal
    BY DEF RecInv, SavedOK
  <2> QED
    BY <2>1, <2>3, <2>4 DEF RecInv, SavedOK
<1> QED
  BY <1>1, <1>3, <1>4, <1>5 DEF RecInv

\* execute_cas begins.
LEMMA InvokeRec ==
    ASSUME RecInv, NEW c \in Cas, NEW m \in Mutation, Invoke(c, m), UNCHANGED storage
    PROVE  RecInv'
<1>1. TypeInv'
  <2>1. TypeOK'
    BY DEF Invoke, RecInv, TypeInv, TypeOK, Phases
  <2>2. CallOK'
    BY DEF Invoke, RecInv, TypeInv, TypeOK, CallOK, BallotBound, Owns, Active
  <2> QED
    BY <2>1, <2>2 DEF TypeInv
<1>2. /\ UNCHANGED <<states, proposed, system_paxos, restarts, unsaved, heard, ballot, in_progress>>
      /\ pc[c] = "idle" /\ pc'[c] = "loop"
      /\ \A d \in Cas : d # c => pc'[d] = pc[d] /\ mutation'[d] = mutation[d]
  BY DEF Invoke, storage, RecInv, TypeInv, TypeOK
<1>3. \A b \in Nat : Spent(c, b) => Spent(c, b)'
  BY <1>2 DEF Spent
<1>4. \A r \in Replica : ~Visited(c, r)' /\ ~Answered(c, r)'
  BY <1>2 DEF Visited, Answered
<1> QED
  BY <1>1, <1>2, <1>3, <1>4, QuietKeeps DEF Active

\* A round begins.
LEMMA StartRoundRec ==
    ASSUME RecInv, NEW c \in Cas, StartRound(c), UNCHANGED storage
    PROVE  RecInv'
<1>1. TypeInv' /\ TypeInv
  BY StartRoundType DEF RecInv
<1>2. /\ UNCHANGED <<states, proposed, system_paxos, restarts, unsaved, mutation>>
      /\ pc[c] = "loop" /\ pc'[c] = "prepare" /\ heard'[c] = {}
      /\ \A d \in Cas : d # c => /\ pc'[d] = pc[d] /\ heard'[d] = heard[d] /\ ballot'[d] = ballot[d]
                                 /\ in_progress'[d] = in_progress[d]
  BY <1>1 DEF StartRound, StartRoundWith, Goto, storage, TypeInv, TypeOK
<1>3. \A b \in Nat : Spent(c, b) => Spent(c, b)'
  <2>1. ballot'[c] > ballot[c] /\ ballot[c] \in Nat /\ ballot'[c] \in Nat
    BY <1>1, NewRoundBallot DEF TypeInv, TypeOK
  <2>2. \A b \in Nat : b < ballot[c] \/ b = ballot[c] => b < ballot'[c]
    BY SMT, <2>1
  <2> QED
    BY <2>2 DEF Spent
<1>4. \A r \in Replica : ~Visited(c, r)' /\ ~Answered(c, r)'
  BY <1>2 DEF Visited, Answered
<1>5. Timestamp(ballot'[c]) >= 1
  <2> DEFINE n == NodeRank[c]
             k == attempts[c] + 1
  <2>1. PICK now \in clock[n] .. MaxClock :
          ballot' = [ballot EXCEPT ![c] = BallotWithTimestamp(BallotTimestamp(now, k), n)]
    BY DEF StartRound, StartRoundWith
  <2>2. n \in 0 .. Ranks - 1 /\ clock[n] \in Nat \ {0} /\ attempts[c] \in Nat
    BY SMT, <1>1, NodeRankNat, RetriesAssumption DEF TypeInv, TypeOK
  <2> DEFINE t == BallotTimestamp(now, k)
  <2>3. t \in Nat /\ t >= 1
    BY SMT, <2>2, ClockAssumption DEF BallotTimestamp
  <2>4. ballot'[c] = BallotWithTimestamp(t, n)
    BY <1>1, <2>1 DEF TypeInv, TypeOK
  <2> HIDE DEF n, t
  <2>5. Timestamp(BallotWithTimestamp(t, n)) = t
    BY <2>2, <2>3, TimestampOf
  <2> QED
    BY <2>3, <2>4, <2>5
<1> QED
  BY <1>1, <1>2, <1>3, <1>4, <1>5, QuietKeeps

\* A call goes on to another phase.
LEMMA MovesRec ==
    ASSUME RecInv, NEW c \in Cas, Moves(c), UNCHANGED storage
    PROVE  RecInv'
<1>1. TypeInv' /\ TypeInv
  BY MovesType DEF RecInv
<1>2. /\ UNCHANGED <<states, proposed, system_paxos, restarts, unsaved, mutation, ballot, in_progress>>
      /\ heard'[c] = {}
      /\ \A d \in Cas : d # c => pc'[d] = pc[d] /\ heard'[d] = heard[d]
  BY <1>1 DEF Moves, MoveTo, Goto, storage, TypeInv, TypeOK
<1>3. /\ pc'[c] = "read" => PhaseOver(c, "prepare")
      /\ pc'[c] \notin {"prepare", "propose"}
      /\ pc'[c] = "commit" => pc[c] = "propose"
      /\ pc'[c] = "Success" => PhaseOver(c, "commit") /\ in_progress[c] = NoProposal
      /\ pc'[c] \in Active => pc[c] \in Active
  <2>1. \A ph : MoveTo(c, ph) => pc'[c] = ph
    BY <1>1 DEF MoveTo, Goto, TypeInv, TypeOK
  <2> QED
    BY <2>1 DEF Moves, PhaseOver, Active
<1>4. \A b \in Nat : Spent(c, b) => Spent(c, b)'
  BY <1>2, <1>3 DEF Spent, PhaseOver
<1>5. ProposalOf(c)' = ProposalOf(c)
  BY <1>2 DEF ProposalOf
<1>6. \A r \in Replica : Visited(c, r)' => Visited(c, r)
  BY <1>2, <1>3 DEF Visited, PhaseOver
<1>7. \A r \in Replica : Answered(c, r)' => Answered(c, r)
  BY <1>2, <1>3 DEF Answered, PhaseOver
<1>8. pc'[c] \in {"propose", "commit"} => ProposalOf(c)' \in proposed
  BY <1>3, <1>5 DEF RecInv, OwnOK
<1>9. pc'[c] \in Active => Timestamp(ballot'[c]) >= 1
  BY <1>2, <1>3 DEF RecInv, OwnOK
<1>10. pc'[c] # "propose" /\ (pc'[c] = "Success" => in_progress'[c] = NoProposal)
  BY <1>2, <1>3
<1> QED
  BY <1>1, <1>2, <1>4, <1>5, <1>6, <1>7, <1>8, <1>9, <1>10, QuietKeeps

\* A call makes its proposal: nobody has proposed or committed under its ballot.
LEMMA BeginProposeRec ==
    ASSUME OneCasPerNode, RecInv, NEW c \in Cas,
           PhaseOver(c, "prepare") \/ pc[c] = "read", BeginPropose(c), UNCHANGED storage
    PROVE  RecInv'
<1> DEFINE q == ProposalOf(c)
<1>0. TypeInv /\ pc[c] \in {"prepare", "read"} /\ pc[c] \in Active
  BY DEF RecInv, PhaseOver, Active
<1>1. TypeInv'
  BY <1>0, BeginProposeType
<1>2. /\ UNCHANGED <<states, mutation, ballot, in_progress, system_paxos, restarts, unsaved>>
      /\ proposed' = proposed \cup {q}
      /\ pc'[c] = "propose" /\ heard'[c] = {}
      /\ \A d \in Cas : d # c => pc'[d] = pc[d] /\ heard'[d] = heard[d]
  BY <1>0 DEF BeginPropose, Goto, storage, TypeInv, TypeOK
<1>3. q \in Proposal /\ q.ballot = ballot[c] /\ ballot[c] \in Nat /\ ballot[c] # 0 /\ Owns(c, q.ballot)
  BY SMT, <1>0, ProposalOfType DEF TypeInv, TypeOK, CallOK
<1>4. \A d \in Cas : ProposalOf(d)' = ProposalOf(d)
  BY <1>2 DEF ProposalOf
<1>5. \A r \in Replica : Visited(c, r)
  BY DEF Visited, PhaseOver
<1> HIDE DEF q
<1>6. \A p \in proposed : p.ballot # q.ballot
  <2> SUFFICES ASSUME NEW p \in proposed, p.ballot = q.ballot PROVE FALSE
    OBVIOUS
  <2>1. PICK d \in Cas : Owns(d, p.ballot) /\ Spent(d, p.ballot)
    BY DEF RecInv, OwnOK
  <2>2. d = c
    BY <1>3, <2>1, OwnerIsUnique
  <2>3. ~(ballot[c] < ballot[c])
    BY SMT, <1>3
  <2> QED
    BY <1>0, <1>3, <2>1, <2>2, <2>3 DEF Spent
<1>7. RowsOK'
  BY <1>2 DEF RecInv, RowsOK, RowOf
<1>8. OwnOK'
  <2>1. \A d \in Cas : \A b : Spent(d, b) => Spent(d, b)'
    BY <1>2 DEF Spent
  <2>2. \A b : b = q.ballot => Spent(c, b)'
    BY <1>2, <1>3 DEF Spent
  <2>3. ASSUME NEW p \in proposed' PROVE \E d \in Cas : Owns(d, p.ballot) /\ Spent(d, p.ballot)'
    BY <1>2, <1>3, <2>1, <2>2 DEF RecInv, OwnOK
  <2>4. \A d \in Cas : pc'[d] \in {"propose", "commit"} => ProposalOf(d)' \in proposed'
    BY <1>2, <1>4 DEF RecInv, OwnOK, q
  <2>5. \A d \in Cas : pc'[d] \in Active => Timestamp(ballot'[d]) >= 1
    BY <1>0, <1>2 DEF RecInv, OwnOK
  <2>6. \A p \in proposed' : Timestamp(p.ballot) >= 1
    BY <1>0, <1>2, <1>3 DEF RecInv, OwnOK
  <2> QED
    BY <2>3, <2>4, <2>5, <2>6 DEF OwnOK, Owns
<1>9. ASSUME NEW r \in Replica, restarts'[r] = 0 PROVE Fresh(r)'
  <2>1. Fresh(r)
    BY <1>2, <1>9 DEF RecInv
  <2>2. \A d \in Cas : Visited(d, r)' => Visited(d, r)
    BY <1>2 DEF Visited
  <2>3. states[r].committed.ballot # ballot[c]
    <3>1. NoProposal.ballot = 0
      BY DEF NoProposal, BallotNone
    <3>2. states[r].committed \in proposed \cup {NoProposal}
      BY <2>1 DEF Fresh
    <3> QED
      BY <1>3, <1>6, <3>1, <3>2
  <2>4. \A p \in proposed' : states[r].promised >= p.ballot
    BY <1>2, <1>3, <1>5, <2>1 DEF Fresh
  <2>5. \A d \in Cas : pc'[d] = "propose" => states[r].committed.ballot # ballot[d]
    BY <1>2, <2>1, <2>3 DEF Fresh
  <2> QED
    BY <1>2, <2>1, <2>2, <2>4, <2>5 DEF Fresh
<1>10. SavedOK'
  <2>1. \A p : Solo(proposed', p) => Solo(proposed, p)
    BY <1>2 DEF Solo
  <2>2. \A r \in Replica : Follows(r) => Follows(r)'
    BY <1>2, <2>1 DEF Follows
  <2>3. \A r \in Replica, d \in Cas : Answered(d, r)' => Answered(d, r)
    BY <1>2 DEF Answered
  <2>4. \A r \in Replica \ unsaved', d \in Cas :
          Answered(d, r)' /\ Solo(proposed', ProposalOf(d)') => Records(system_paxos'[r], ProposalOf(d)')
    BY <1>2, <1>4, <2>1, <2>3 DEF RecInv, SavedOK
  <2>5. \A d \in Cas : pc'[d] = "Success" => in_progress'[d] = NoProposal
    BY <1>2 DEF RecInv, SavedOK
  <2> QED
    BY <1>2, <2>2, <2>4, <2>5 DEF RecInv, SavedOK
<1> QED
  BY <1>1, <1>7, <1>8, <1>9, <1>10 DEF RecInv

\* A handler leaves the calls' proposals alone.
LEMMA HandlerOwn ==
    ASSUME RecInv, NEW c \in Cas, UNCHANGED <<pc, mutation, ballot, proposed>>,
           \A d \in Cas : d # c \/ pc[c] # "prepare" => in_progress'[d] = in_progress[d]
    PROVE  /\ OwnOK'
           /\ \A d \in Cas : pc'[d] \in {"propose", "commit", "Success"} => ProposalOf(d)' = ProposalOf(d)
           /\ \A d \in Cas : pc'[d] = "Success" => in_progress'[d] = NoProposal
<1>1. \A d \in Cas : pc'[d] \in {"propose", "commit", "Success"} => in_progress'[d] = in_progress[d]
  OBVIOUS
<1>2. \A d \in Cas : pc'[d] \in {"propose", "commit", "Success"} => ProposalOf(d)' = ProposalOf(d)
  BY <1>1 DEF ProposalOf
<1>3. \A d \in Cas : pc'[d] \in {"propose", "commit"} => ProposalOf(d)' \in proposed'
  BY <1>2 DEF RecInv, OwnOK
<1>4. \A p \in proposed' : \E d \in Cas : Owns(d, p.ballot)' /\ Spent(d, p.ballot)'
  BY DEF RecInv, OwnOK, Owns, Spent
<1>5. \A d \in Cas : pc'[d] \in Active => Timestamp(ballot'[d]) >= 1
  BY DEF RecInv, OwnOK
<1>6. \A p \in proposed' : Timestamp(p.ballot) >= 1
  BY DEF RecInv, OwnOK
<1>7. OwnOK'
  BY <1>3, <1>4, <1>5, <1>6 DEF OwnOK
<1>8. \A d \in Cas : pc'[d] = "Success" => in_progress'[d] = NoProposal
  BY <1>1 DEF RecInv, SavedOK
<1> QED
  BY <1>2, <1>7, <1>8

\* A handler's write to the row succeeds, or makes the replica one of the unsaved.
LEMMA SaveFacts ==
    ASSUME RowsOK, UNCHANGED proposed, NEW r \in Replica, NEW row \in Row, RowOf(row, proposed), Save(r, row)
    PROVE  /\ RowsOK' /\ UNCHANGED restarts
           /\ \A t \in Replica \ unsaved' :
                 /\ t \in Replica \ unsaved
                 /\ system_paxos'[t] = IF t = r THEN row ELSE system_paxos[t]
<1>1. /\ UNCHANGED restarts
      /\ \/ system_paxos' = [system_paxos EXCEPT ![r] = row] /\ UNCHANGED unsaved
         \/ unsaved' = unsaved \cup {r} /\ UNCHANGED system_paxos
  BY DEF Save
<1>2. system_paxos' \in [Replica -> Row] /\ \A t \in Replica : system_paxos'[t] \in {row, system_paxos[t]}
  BY <1>1 DEF RowsOK
<1>3. RowsOK'
  BY <1>1, <1>2 DEF RowsOK
<1>4. \A t \in Replica \ unsaved' :
         /\ t \in Replica \ unsaved
         /\ system_paxos'[t] = IF t = r THEN row ELSE system_paxos[t]
  BY <1>1 DEF RowsOK
<1> QED
  BY <1>1, <1>3, <1>4

\* The fields of a replica's state.
LEMMA StateTypes ==
    ASSUME TypeInv, NEW r \in Replica
    PROVE  /\ states[r] \in PaxosStates /\ states[r].promised \in Nat
           /\ states[r].accepted \in Kept /\ states[r].committed \in Kept
           /\ states[r].accepted.ballot \in Nat /\ states[r].committed.ballot \in Nat
<1>1. states[r] \in PaxosStates
  BY DEF TypeInv, TypeOK
<1>2. states[r].promised \in Nat /\ states[r].accepted \in Kept /\ states[r].committed \in Kept
  BY <1>1 DEF PaxosStates, Kept
<1> QED
  BY <1>1, <1>2, ProposalTimestamp

\* handle_prepare with save_promise.
LEMMA PrepareRec ==
    ASSUME RecInv, NEW c \in Cas, NEW r \in Replica, StoredPrepare(c, r)
    PROVE  RecInv'
<1> DEFINE s == states[r]
           n == Prepare(s, ballot[c])
<1>1. TypeInv /\ TypeInv'
  BY HandlerType DEF RecInv, StoredPrepare
<1>2. /\ pc[c] = "prepare" /\ states' = [states EXCEPT ![r] = n]
      /\ heard' = [heard EXCEPT ![c] = heard[c] \cup {r}]
      /\ \E p : in_progress' = [in_progress EXCEPT ![c] = p]
      /\ UNCHANGED <<pc, mutation, ballot, proposed>>
      /\ Save(r, SavePromise(system_paxos[r], ballot[c])) \/ UNCHANGED storage
  BY DEF StoredPrepare, HandlePrepare
<1>3. /\ s \in PaxosStates /\ s.promised \in Nat /\ ballot[c] \in Nat
      /\ n.promised >= ballot[c] /\ n.promised >= s.promised
      /\ n.accepted = s.accepted /\ n.committed = s.committed /\ n.promised \in Nat
  <2>1. s \in PaxosStates /\ s.promised \in Nat /\ ballot[c] \in Nat
    BY <1>1, StateTypes DEF TypeInv, TypeOK
  <2> HIDE DEF s
  <2>2. /\ n \in PaxosStates /\ n.promised >= ballot[c] /\ n.promised >= s.promised
        /\ n.accepted = s.accepted /\ n.committed = s.committed
    BY <2>1, PrepareFacts
  <2> QED
    BY <2>1, <2>2 DEF PaxosStates
<1> HIDE DEF n
<1>4. /\ states'[r] = n /\ \A t \in Replica : t # r => states'[t] = states[t]
      /\ \A d \in Cas : d # c => heard'[d] = heard[d] /\ in_progress'[d] = in_progress[d]
  BY <1>1, <1>2 DEF TypeInv, TypeOK
<1>5. /\ OwnOK'
      /\ \A d \in Cas : pc'[d] \in {"propose", "commit", "Success"} => ProposalOf(d)' = ProposalOf(d)
      /\ \A d \in Cas : pc'[d] = "Success" => in_progress'[d] = NoProposal
  BY <1>2, <1>4, HandlerOwn
<1>6. /\ RowsOK' /\ UNCHANGED restarts
      /\ \A t \in Replica \ unsaved' :
            /\ t \in Replica \ unsaved
            /\ system_paxos'[t].proposal = system_paxos[t].proposal
            /\ system_paxos'[t].most_recent_commit = system_paxos[t].most_recent_commit
  <2>1. CASE UNCHANGED storage
    BY <1>2, <2>1 DEF storage, RecInv, RowsOK
  <2>2. CASE Save(r, SavePromise(system_paxos[r], ballot[c]))
    <3> DEFINE row == SavePromise(system_paxos[r], ballot[c])
    <3>1. /\ row \in Row /\ row.proposal = system_paxos[r].proposal
          /\ row.most_recent_commit = system_paxos[r].most_recent_commit
      BY <1>3, PromiseWritten DEF RecInv, RowsOK
    <3> HIDE DEF row
    <3>2. RowOf(row, proposed) /\ RowsOK
      BY <3>1 DEF RecInv, RowsOK, RowOf
    <3>3. Save(r, row)
      BY <2>2 DEF row
    <3>4. /\ RowsOK' /\ UNCHANGED restarts
          /\ \A t \in Replica \ unsaved' :
                /\ t \in Replica \ unsaved
                /\ system_paxos'[t] = IF t = r THEN row ELSE system_paxos[t]
      BY <1>2, <3>1, <3>2, <3>3, SaveFacts
    <3> QED
      BY <3>1, <3>4
  <2> QED
    BY <1>2, <2>1, <2>2
<1>7. ASSUME NEW t \in Replica, restarts'[t] = 0 PROVE Fresh(t)'
  <2>1. Fresh(t)
    BY <1>6, <1>7 DEF RecInv
  <2>2. /\ states'[t].accepted = states[t].accepted /\ states'[t].committed = states[t].committed
        /\ states'[t].promised \in Nat /\ states[t].promised \in Nat
        /\ states'[t].promised >= states[t].promised /\ (t = r => states'[t].promised >= ballot[c])
    <3>1. states[t].promised \in Nat
      BY <1>1, StateTypes
    <3>2. states[t].promised >= states[t].promised
      BY SMT, <3>1
    <3> QED
      BY <1>3, <1>4, <3>1, <3>2
  <2>3. \A d \in Cas : Visited(d, t)' => Visited(d, t) \/ (d = c /\ t = r)
    BY <1>1, <1>2, <1>4 DEF Visited, TypeInv, TypeOK
  <2>4. \A b \in Nat : states[t].promised >= b => states'[t].promised >= b
    BY SMT, <2>2
  <2>5. (\A d \in Cas : ballot[d] \in Nat) /\ \A q \in proposed : q.ballot \in Nat
    BY <1>1 DEF TypeInv, TypeOK, Proposal
  <2>6. \A d \in Cas : Visited(d, t)' => states'[t].promised >= ballot'[d]
    BY <1>2, <2>1, <2>2, <2>3, <2>4, <2>5 DEF Fresh
  <2>7. \A q \in proposed' : states'[t].promised >= q.ballot
    BY <1>2, <2>1, <2>4, <2>5 DEF Fresh
  <2> QED
    BY <1>2, <2>1, <2>2, <2>6, <2>7 DEF Fresh
<1>8. SavedOK'
  <2>1. \A t \in Replica : states'[t].accepted = states[t].accepted /\ states'[t].committed = states[t].committed
    BY <1>3, <1>4
  <2>2. \A t \in Replica \ unsaved' : restarts'[t] = 0 => Follows(t)'
    BY <1>2, <1>6, <2>1 DEF RecInv, SavedOK, Follows
  <2>3. \A t \in Replica, d \in Cas : Answered(d, t)' => Answered(d, t) /\ ProposalOf(d)' = ProposalOf(d)
    BY <1>2, <1>4, <1>5 DEF Answered
  <2>4. \A t \in Replica \ unsaved', d \in Cas :
          Answered(d, t)' /\ Solo(proposed', ProposalOf(d)') => Records(system_paxos'[t], ProposalOf(d)')
    BY <1>2, <1>6, <2>3 DEF RecInv, SavedOK, Records
  <2> QED
    BY <1>5, <2>2, <2>4 DEF SavedOK
<1> QED
  BY <1>1, <1>5, <1>6, <1>7, <1>8 DEF RecInv

\* A replica that has not restarted has promised what it has committed.
LEMMA CommittedBelow ==
    ASSUME RecInv, NEW r \in Replica, Fresh(r)
    PROVE  states[r].committed.ballot <= states[r].promised
<1>1. states[r].promised \in Nat /\ states[r].committed.ballot \in Nat
  BY StateTypes DEF RecInv
<1>2. NoProposal.ballot = 0
  BY DEF NoProposal, BallotNone
<1>3. states[r].committed # NoProposal => states[r].promised >= states[r].committed.ballot
  BY DEF Fresh
<1> QED
  BY SMT, <1>1, <1>2, <1>3

\* What a replica accepts is in its row afterwards, if it is alone in its microsecond.
LEMMA AcceptedIsWritten ==
    ASSUME RecInv, NEW r \in Replica, Fresh(r), Follows(r), NEW p \in Proposal, p \in proposed,
           p.ballot >= states[r].promised, states[r].committed.ballot # p.ballot, Solo(proposed, p)
    PROVE  SaveProposal(system_paxos[r], p).proposal = LiveCell(Timestamp(p.ballot), p)
<1> DEFINE row == system_paxos[r]
           ts == Timestamp(p.ballot)
           old == row.proposal
           k == states[r].committed
<1>1. row \in Row /\ RowOf(row, proposed) /\ old \in CellOf(Kept) /\ ts >= 1
  BY DEF RecInv, RowsOK, Row, OwnOK
<1>2. (ts > old.timestamp => SaveProposal(row, p).proposal = LiveCell(ts, p))
      /\ (~(ts > old.timestamp) => SaveProposal(row, p).proposal = old)
  BY <1>1, ProposalWritten
<1>3. old.timestamp \in Nat /\ ts \in Nat /\ p.ballot \in Nat
  BY <1>1, ProposalTimestamp DEF CellOf, Kept
<1>4. k \in proposed \cup {NoProposal} /\ k \in Kept /\ k.ballot \in Nat /\ states[r].promised \in Nat /\ Timestamp(k.ballot) \in Nat
  BY StateTypes, ProposalTimestamp DEF RecInv, Fresh
<1>5. k.ballot <= p.ballot
  <2>1. k.ballot <= states[r].promised
    BY CommittedBelow
  <2> HIDE DEF k
  <2> QED
    BY SMT, <1>3, <1>4, <2>1
<1>6. Timestamp(k.ballot) <= ts
  BY <1>3, <1>4, <1>5, TimestampMonotone
<1>7. CASE old.is_tombstone
  <2>1. old.timestamp <= Timestamp(k.ballot)
    BY <1>1, <1>7 DEF RowOf, Follows
  <2>2. SUFFICES ASSUME ~(ts > old.timestamp) PROVE FALSE
    BY <1>2
  <2>3. Timestamp(k.ballot) = ts /\ Timestamp(k.ballot) # 0
    <3> HIDE DEF ts, k, old
    <3> QED
      BY SMT, <1>1, <1>3, <1>4, <1>6, <2>1, <2>2
  <2>4. k \in proposed
    BY <1>4, <2>3, ProposalTimestamp
  <2>5. k = p
    BY <2>3, <2>4 DEF Solo
  <2> QED
    BY <2>5
<1>8. CASE ~old.is_tombstone
  <2> DEFINE v == old.value
  <2>1. v \in proposed /\ old.timestamp = Timestamp(v.ballot) /\ v \in Proposal /\ v.ballot \in Nat
    BY <1>1, <1>8 DEF RowOf, RecInv, TypeInv, TypeOK, Proposal
  <2>2. v.ballot <= p.ballot
    <3>1. states[r].promised >= v.ballot
      BY <2>1 DEF Fresh
    <3> HIDE DEF v
    <3> QED
      BY SMT, <1>3, <1>4, <2>1, <3>1
  <2>3. old.timestamp <= ts
    BY <1>3, <2>1, <2>2, TimestampMonotone
  <2>4. SUFFICES ASSUME ~(ts > old.timestamp) PROVE old = LiveCell(ts, p)
    BY <1>2
  <2>5. old.timestamp = ts
    <3> HIDE DEF old, ts
    <3> QED
      BY SMT, <1>3, <2>3, <2>4
  <2>6. v = p
    BY <2>1, <2>5 DEF Solo
  <2>7. old.is_tombstone = FALSE
    BY <1>1, <1>8 DEF CellOf
  <2> HIDE DEF old, ts
  <2> QED
    BY <1>1, <2>5, <2>6, <2>7 DEF CellOf, LiveCell
<1> QED
  BY <1>7, <1>8

\* handle_propose with save_proposal.
LEMMA ProposeRec ==
    ASSUME RecInv, NEW c \in Cas, NEW r \in Replica, StoredPropose(c, r)
    PROVE  RecInv'
<1> DEFINE s == states[r]
           p == ProposalOf(c)
           n == Propose(s, p)
<1>1. TypeInv /\ TypeInv'
  BY HandlerType DEF RecInv, StoredPropose
<1>2. /\ pc[c] = "propose" /\ states' = [states EXCEPT ![r] = n]
      /\ heard' = [heard EXCEPT ![c] = heard[c] \cup {r}]
      /\ UNCHANGED <<pc, mutation, ballot, in_progress, proposed>>
      /\ \/ Accepts(s, p) /\ Save(r, SaveProposal(system_paxos[r], p))
         \/ ~Accepts(s, p) /\ UNCHANGED storage
  BY DEF StoredPropose, HandlePropose
<1>3. p \in Proposal /\ p.ballot = ballot[c] /\ p \in proposed /\ p.ballot \in Nat
  BY <1>1, <1>2, ProposalOfType DEF RecInv, OwnOK, Active, Proposal
<1>4. /\ s \in PaxosStates /\ s.promised \in Nat /\ s.committed.ballot \in Nat
      /\ n.committed = s.committed
      /\ Accepts(s, p) => p.ballot >= s.promised /\ n.promised = p.ballot /\ n.accepted = p
      /\ ~Accepts(s, p) => n = s
  <2>1. s \in PaxosStates /\ s.promised \in Nat /\ s.committed.ballot \in Nat
    BY <1>1, StateTypes
  <2> HIDE DEF s, p
  <2> QED
    BY <1>3, <2>1, ProposeFacts
<1> HIDE DEF n, p
<1>5. /\ states'[r] = n /\ \A t \in Replica : t # r => states'[t] = states[t]
      /\ \A d \in Cas : d # c => heard'[d] = heard[d]
  BY <1>1, <1>2 DEF TypeInv, TypeOK
<1>6. /\ OwnOK'
      /\ \A d \in Cas : pc'[d] \in {"propose", "commit", "Success"} => ProposalOf(d)' = ProposalOf(d)
      /\ \A d \in Cas : pc'[d] = "Success" => in_progress'[d] = NoProposal
  BY <1>2, HandlerOwn
<1>7. \A t \in Replica, d \in Cas : Answered(d, t)' = Answered(d, t) /\ Visited(d, t)' = Visited(d, t)
  BY <1>2, <1>5 DEF Answered, Visited
<1>8. ASSUME NEW t \in Replica, states'[t] = states[t], Fresh(t) PROVE Fresh(t)'
  BY <1>2, <1>7, <1>8 DEF Fresh
<1>9. CASE ~Accepts(s, p)
  <2>1. UNCHANGED <<states, system_paxos, restarts, unsaved>>
    <3>1. states' = states
      BY <1>1, <1>2, <1>4, <1>9 DEF TypeInv, TypeOK
    <3> QED
      BY <1>2, <1>9, <3>1 DEF storage
  <2>2. RowsOK'
    BY <1>2, <2>1 DEF RecInv, RowsOK
  <2>3. \A t \in Replica : restarts'[t] = 0 => Fresh(t)'
    BY <1>8, <2>1 DEF RecInv
  <2>4. \A t \in Replica : Follows(t)' = Follows(t)
    BY <1>2, <2>1 DEF Follows
  <2>5. \A t \in Replica, d \in Cas : Answered(d, t)' => Answered(d, t) /\ ProposalOf(d)' = ProposalOf(d)
    BY <1>2, <1>6, <1>7 DEF Answered
  <2>6. SavedOK'
    BY <1>2, <1>6, <2>1, <2>4, <2>5 DEF RecInv, SavedOK
  <2> QED
    BY <1>1, <1>6, <2>2, <2>3, <2>6 DEF RecInv
<1>10. CASE Accepts(s, p)
  <2> DEFINE row == SaveProposal(system_paxos[r], p)
  <2>1. row \in Row /\ RowOf(row, proposed) /\ row.most_recent_commit = system_paxos[r].most_recent_commit
    <3>1. system_paxos[r] \in Row /\ RowOf(system_paxos[r], proposed)
      BY DEF RecInv, RowsOK
    <3> QED
      BY <1>3, <3>1, ProposalWritten
  <2>2. Save(r, row)
    BY <1>2, <1>10
  <2> HIDE DEF row
  <2>3. /\ RowsOK' /\ UNCHANGED restarts
        /\ \A t \in Replica \ unsaved' :
              /\ t \in Replica \ unsaved
              /\ system_paxos'[t] = IF t = r THEN row ELSE system_paxos[t]
    BY <1>2, <2>1, <2>2, SaveFacts DEF RecInv
  <2>4. ASSUME restarts[r] = 0 PROVE Fresh(r)'
    <3>1. Fresh(r)
      BY <2>4 DEF RecInv
    <3>2. s.committed.ballot # p.ballot /\ s.committed.ballot <= s.promised
      BY <1>2, <1>3, <3>1, CommittedBelow DEF Fresh
    <3>3. n.accepted.ballot > n.committed.ballot
      <4> HIDE DEF s
      <4>1. p.ballot > s.committed.ballot
        BY SMT, <1>3, <1>4, <1>10, <3>2
      <4> QED
        BY <1>4, <1>10, <4>1
    <3>4. \A b \in Nat : s.promised >= b => n.promised >= b
      <4>1. p.ballot >= s.promised /\ n.promised = p.ballot
        BY <1>4, <1>10
      <4> HIDE DEF s
      <4> QED
        BY SMT, <1>3, <1>4, <4>1
    <3>5. (\A d \in Cas : ballot[d] \in Nat) /\ \A q \in proposed : q.ballot \in Nat
      BY <1>1 DEF TypeInv, TypeOK, Proposal
    <3>6. \A d \in Cas : Visited(d, r)' => n.promised >= ballot'[d]
      BY <1>2, <1>7, <3>1, <3>4, <3>5 DEF Fresh
    <3>7. \A q \in proposed' : n.promised >= q.ballot
      BY <1>2, <3>1, <3>4, <3>5 DEF Fresh
    <3>8. n.accepted = p /\ n.committed = s.committed
      BY <1>4, <1>10
    <3>9. \A d \in Cas : pc'[d] = "propose" => n.committed.ballot # ballot'[d]
      BY <1>2, <3>1, <3>8 DEF Fresh
    <3>10. n.accepted \in proposed' \cup {NoProposal} /\ n.committed \in proposed' \cup {NoProposal}
      BY <1>2, <1>3, <3>1, <3>8 DEF Fresh
    <3> HIDE DEF s
    <3> QED
      BY <1>5, <3>3, <3>6, <3>7, <3>9, <3>10 DEF Fresh
  <2>5. \A t \in Replica : restarts'[t] = 0 => Fresh(t)'
    BY <1>5, <1>8, <2>3, <2>4 DEF RecInv
  <2>6. ASSUME r \notin unsaved', restarts[r] = 0 PROVE Follows(r)'
    <3>1. Fresh(r) /\ Follows(r) /\ r \in Replica \ unsaved' /\ system_paxos'[r] = row
      BY <2>3, <2>6 DEF RecInv, SavedOK
    <3>2. s.committed.ballot # p.ballot
      BY <1>2, <1>3, <3>1 DEF Fresh
    <3>3. Solo(proposed, p) => row.proposal = LiveCell(Timestamp(p.ballot), p)
      BY <1>3, <1>4, <1>10, <3>1, <3>2, AcceptedIsWritten DEF row
    <3>4. n.accepted = p /\ n.committed = s.committed
      BY <1>4, <1>10
    <3> QED
      BY <1>2, <1>5, <2>1, <3>1, <3>3, <3>4 DEF Follows
  <2>7. \A t \in Replica \ unsaved' : restarts'[t] = 0 => Follows(t)'
    <3>1. \A t \in Replica \ unsaved' : t # r => Follows(t)' = Follows(t)
      BY <1>2, <1>5, <2>3 DEF Follows
    <3> QED
      BY <2>3, <2>6, <3>1 DEF RecInv, SavedOK
  <2>8. \A t \in Replica \ unsaved' : system_paxos'[t].most_recent_commit = system_paxos[t].most_recent_commit
    BY <2>1, <2>3
  <2>9. \A t \in Replica, d \in Cas : Answered(d, t)' => Answered(d, t) /\ ProposalOf(d)' = ProposalOf(d)
    BY <1>2, <1>6, <1>7 DEF Answered
  <2>10. \A t \in Replica \ unsaved', d \in Cas :
           Answered(d, t)' /\ Solo(proposed', ProposalOf(d)') => Records(system_paxos'[t], ProposalOf(d)')
    BY <1>2, <2>3, <2>8, <2>9 DEF RecInv, SavedOK, Records
  <2>11. SavedOK'
    BY <1>6, <2>7, <2>10 DEF SavedOK
  <2> QED
    BY <1>1, <1>6, <2>3, <2>5, <2>11 DEF RecInv
<1> QED
  BY <1>9, <1>10

\* A commit alone in its microsecond is in the row after save_commit, or a later one is,
\* and what the row recorded before it still does.
LEMMA CommitRecorded ==
    ASSUME NEW P \in SUBSET Proposal, NEW row \in Row, RowOf(row, P),
           NEW p \in P, Timestamp(p.ballot) >= 1
    PROVE  /\ Solo(P, p) => Records(SaveCommit(row, p), p)
           /\ \A q : q.ballot \in Nat /\ Records(row, q) => Records(SaveCommit(row, p), q)
<1> DEFINE ts == Timestamp(p.ballot)
           old == row.most_recent_commit
           new == SaveCommit(row, p).most_recent_commit
           v == old.value
<1>1. p \in Proposal
  OBVIOUS
<1>2. (ts > old.timestamp => new = LiveCell(ts, p)) /\ (~(ts > old.timestamp) => new = old)
  BY <1>1, CommitWritten
<1>3. old \in CellOf(Kept) /\ old.timestamp \in Nat /\ v \in P \cup {NoProposal} /\ old.timestamp = Timestamp(v.ballot)
  BY DEF Row, CellOf, RowOf
<1>4. ts \in Nat /\ Timestamp(NoProposal.ballot) = 0
  BY ProposalTimestamp DEF Kept
<1> HIDE DEF new, old
<1>5. CASE ts > old.timestamp
  <2>1. new.value = p
    <3>1. LiveCell(ts, p).value = p
      BY DEF LiveCell
    <3> QED
      BY <1>2, <1>5, <3>1
  <2>2. ASSUME NEW q, q.ballot \in Nat, v = q \/ Timestamp(v.ballot) > Timestamp(q.ballot)
        PROVE  ts > Timestamp(q.ballot)
    <3>1. Timestamp(q.ballot) \in Nat
      BY <2>2, TimestampSplits
    <3>2. CASE v = q
      BY <1>3, <1>5, <3>2
    <3>3. CASE Timestamp(v.ballot) > Timestamp(q.ballot)
      <4> HIDE DEF ts, v
      <4> QED
        BY SMT, <1>3, <1>4, <1>5, <3>1, <3>3
    <3> QED
      BY <2>2, <3>2, <3>3
  <2> QED
    BY <2>1, <2>2 DEF Records, new, old
<1>6. CASE ~(ts > old.timestamp)
  <2>1. new = old
    BY <1>2, <1>6
  <2>2. ASSUME Solo(P, p), ~(Timestamp(v.ballot) > ts) PROVE v = p
    <3>1. Timestamp(v.ballot) = ts /\ Timestamp(v.ballot) # 0
      <4> HIDE DEF ts, v
      <4>1. ts >= 1
        BY DEF ts
      <4> QED
        BY SMT, <1>3, <1>4, <1>6, <2>2, <4>1
    <3>2. v \in P
      BY <1>3, <1>4, <3>1
    <3> QED
      BY <2>2, <3>1, <3>2 DEF Solo
  <2> QED
    BY <2>1, <2>2 DEF Records, new, old
<1> QED
  BY <1>5, <1>6

\* The row follows a commit.
LEMMA CommitFollowed ==
    ASSUME RecInv, NEW r \in Replica, Follows(r), NEW p \in Proposal, p \in proposed,
           states'[r] = Commit(states[r], p), UNCHANGED proposed,
           system_paxos'[r] = SaveCommit(system_paxos[r], p)
    PROVE  Follows(r)'
<1> DEFINE row == system_paxos[r]
           n == Commit(states[r], p)
           ts == Timestamp(p.ballot)
           k == states[r].committed
           a == states[r].accepted
<1>1. row \in Row /\ RowOf(row, proposed) /\ row.proposal \in CellOf(Kept)
  BY DEF RecInv, RowsOK, Row
<1>2. states[r] \in PaxosStates /\ k.ballot \in Nat /\ a.ballot \in Nat /\ k \in Kept /\ a \in Kept /\ p \in Kept /\ p.ballot \in Nat
  BY StateTypes DEF RecInv, Kept, Proposal
<1>3. /\ n \in PaxosStates /\ n.committed \in {p, k}
      /\ n.committed.ballot >= p.ballot /\ n.committed.ballot >= k.ballot
      /\ \/ n.accepted = a /\ a.ballot > n.committed.ballot
         \/ n.accepted = NoProposal
  BY <1>2, CommitFacts
<1>4. ts \in Nat /\ Timestamp(k.ballot) \in Nat /\ Timestamp(a.ballot) \in Nat
  BY <1>2, ProposalTimestamp
<1>5. /\ ts > row.most_recent_commit.timestamp => SaveCommit(row, p).most_recent_commit = LiveCell(ts, p)
      /\ ~(ts > row.most_recent_commit.timestamp) => SaveCommit(row, p).most_recent_commit = row.most_recent_commit
      /\ ts < row.proposal.timestamp => SaveCommit(row, p).proposal = row.proposal
  BY <1>1, CommitWritten
<1>6. row.most_recent_commit.timestamp = Timestamp(k.ballot)
  BY DEF Follows
<1> HIDE DEF n
<1>7. SaveCommit(row, p).most_recent_commit.timestamp = Timestamp(n.committed.ballot)
  <2>1. CASE n.committed = p
    <3>1. k.ballot <= p.ballot
      <4> HIDE DEF k
      <4> QED
        BY SMT, <1>2, <1>3, <2>1
    <3>2. Timestamp(k.ballot) <= ts
      BY <1>2, <3>1, TimestampMonotone
    <3>3. ts > Timestamp(k.ballot) \/ Timestamp(k.ballot) = ts
      <4> HIDE DEF k, ts
      <4> QED
        BY SMT, <1>4, <3>2
    <3>4. ~(ts > ts)
      BY SMT, <1>4
    <3>5. LiveCell(ts, p).timestamp = ts
      BY DEF LiveCell
    <3> QED
      BY <1>5, <1>6, <2>1, <3>3, <3>4, <3>5
  <2>2. CASE n.committed = k
    <3>1. p.ballot <= k.ballot
      <4> HIDE DEF k
      <4> QED
        BY SMT, <1>2, <1>3, <2>2
    <3>2. ts <= Timestamp(k.ballot)
      BY <1>2, <3>1, TimestampMonotone
    <3>3. ~(ts > Timestamp(k.ballot))
      <4> HIDE DEF k, ts
      <4> QED
        BY SMT, <1>4, <3>2
    <3> QED
      BY <1>5, <1>6, <2>2, <3>3
  <2> QED
    BY <1>3, <2>1, <2>2
<1>8. ASSUME n.accepted # NoProposal, Solo(proposed, n.accepted)
      PROVE  SaveCommit(row, p).proposal = LiveCell(Timestamp(n.accepted.ballot), n.accepted)
  <2>1. n.accepted = a /\ a.ballot > n.committed.ballot
    BY <1>3, <1>8
  <2>2. row.proposal = LiveCell(Timestamp(a.ballot), a)
    BY <1>8, <2>1 DEF Follows
  <2>3. p.ballot < a.ballot /\ p.ballot <= a.ballot /\ p.ballot # a.ballot
    <3>1. n.committed.ballot \in Nat
      BY <1>2, <1>3
    <3> HIDE DEF a
    <3> QED
      BY SMT, <1>2, <1>3, <2>1, <3>1
  <2>4. ts <= Timestamp(a.ballot) /\ ts # Timestamp(a.ballot)
    <3>1. ts <= Timestamp(a.ballot)
      BY <1>2, <2>3, TimestampMonotone
    <3> QED
      BY <1>8, <2>1, <2>3, <3>1 DEF Solo
  <2>5. ts < row.proposal.timestamp
    <3>1. row.proposal.timestamp = Timestamp(a.ballot)
      <4>1. LiveCell(Timestamp(a.ballot), a).timestamp = Timestamp(a.ballot)
        BY DEF LiveCell
      <4> QED
        BY <2>2, <4>1
    <3> HIDE DEF ts, a, row
    <3> QED
      BY SMT, <1>4, <2>4, <3>1
  <2> QED
    BY <1>5, <2>1, <2>2, <2>5
<1> QED
  BY <1>7, <1>8 DEF Follows, n

\* handle_commit with save_commit.
LEMMA CommitRec ==
    ASSUME OneCasPerNode, RecInv, NEW c \in Cas, NEW r \in Replica, StoredCommit(c, r)
    PROVE  RecInv'
<1> DEFINE s == states[r]
           p == ProposalOf(c)
           n == Commit(s, p)
           row == SaveCommit(system_paxos[r], p)
<1>1. TypeInv /\ TypeInv'
  BY HandlerType DEF RecInv, StoredCommit
<1>2. /\ pc[c] = "commit" /\ states' = [states EXCEPT ![r] = n]
      /\ heard' = [heard EXCEPT ![c] = heard[c] \cup {r}]
      /\ UNCHANGED <<pc, mutation, ballot, in_progress, proposed>>
      /\ Save(r, row)
  BY DEF StoredCommit, HandleCommit
<1>3. p \in Proposal /\ p.ballot = ballot[c] /\ p \in proposed /\ p.ballot \in Nat /\ Timestamp(p.ballot) >= 1 /\ proposed \in SUBSET Proposal
  BY <1>1, <1>2, ProposalOfType DEF RecInv, OwnOK, Active, Proposal, TypeInv, TypeOK
<1>4. /\ n.promised = s.promised /\ n.committed \in {p, s.committed}
      /\ \/ n.accepted = s.accepted /\ s.accepted.ballot > n.committed.ballot
         \/ n.accepted = NoProposal
  <2>1. s \in PaxosStates
    BY <1>1, StateTypes
  <2> HIDE DEF s, p
  <2> QED
    BY <1>3, <2>1, CommitFacts
<1>5. system_paxos[r] \in Row /\ RowOf(system_paxos[r], proposed)
  BY DEF RecInv, RowsOK
<1>6. row \in Row /\ RowOf(row, proposed)
  <2> HIDE DEF p
  <2> QED
    BY <1>3, <1>5, CommitWritten
<1>7. /\ Solo(proposed, p) => Records(row, p)
      /\ \A q : q.ballot \in Nat /\ Records(system_paxos[r], q) => Records(row, q)
  <2> HIDE DEF p
  <2> QED
    BY <1>3, <1>5, CommitRecorded
<1> HIDE DEF p, row
<1>8. /\ RowsOK' /\ UNCHANGED restarts
      /\ \A t \in Replica \ unsaved' :
            /\ t \in Replica \ unsaved
            /\ system_paxos'[t] = IF t = r THEN row ELSE system_paxos[t]
  BY <1>2, <1>6, SaveFacts DEF RecInv
<1>9. /\ states'[r] = n /\ \A t \in Replica : t # r => states'[t] = states[t]
      /\ \A d \in Cas : d # c => heard'[d] = heard[d]
  BY <1>1, <1>2 DEF TypeInv, TypeOK
<1>10. /\ OwnOK'
       /\ \A d \in Cas : pc'[d] \in {"propose", "commit", "Success"} => ProposalOf(d)' = ProposalOf(d)
       /\ \A d \in Cas : pc'[d] = "Success" => in_progress'[d] = NoProposal
  BY <1>2, HandlerOwn
<1>11. \A t \in Replica, d \in Cas : Visited(d, t)' = Visited(d, t)
  BY <1>2, <1>9 DEF Visited
<1>12. ASSUME NEW t \in Replica, restarts'[t] = 0 PROVE Fresh(t)'
  <2>1. Fresh(t)
    BY <1>8, <1>12 DEF RecInv
  <2>2. CASE t # r
    BY <1>2, <1>9, <1>11, <2>1, <2>2 DEF Fresh
  <2>3. CASE t = r
    <3>1. n.committed \in proposed \cup {NoProposal} /\ n.accepted \in proposed \cup {NoProposal}
      BY <1>3, <1>4, <2>1, <2>3 DEF Fresh
    <3>2. n.accepted # NoProposal => n.accepted.ballot > n.committed.ballot
      BY <1>4
    <3>3. ASSUME NEW d \in Cas, pc[d] = "propose", n.committed.ballot = ballot[d] PROVE FALSE
      <4>1. n.committed = p
        BY <1>4, <2>1, <2>3, <3>3 DEF Fresh
      <4>2. ballot[c] = ballot[d] /\ Owns(c, ballot[c]) /\ Owns(d, ballot[d])
        BY <1>1, <1>2, <1>3, <3>3, <4>1 DEF TypeInv, CallOK, Active
      <4>3. c = d
        BY <4>2, OwnerIsUnique
      <4> QED
        BY <1>2, <3>3, <4>3
    <3>4. \A q \in proposed : n.promised >= q.ballot
      BY <1>4, <2>1, <2>3 DEF Fresh
    <3>5. \A d \in Cas : Visited(d, r)' => n.promised >= ballot[d]
      BY <1>4, <1>11, <2>1, <2>3 DEF Fresh
    <3> HIDE DEF n
    <3> QED
      BY <1>2, <1>9, <2>3, <3>1, <3>2, <3>3, <3>4, <3>5 DEF Fresh
  <2> QED
    BY <2>2, <2>3
<1>13. ASSUME NEW t \in Replica \ unsaved', restarts'[t] = 0 PROVE Follows(t)'
  <2>1. Follows(t)
    BY <1>8, <1>13 DEF RecInv, SavedOK
  <2>2. CASE t # r
    BY <1>2, <1>8, <1>9, <2>1, <2>2 DEF Follows
  <2>3. CASE t = r
    BY <1>2, <1>3, <1>8, <1>9, <2>1, <2>3, CommitFollowed DEF row
  <2> QED
    BY <2>2, <2>3
<1>14. ASSUME NEW t \in Replica \ unsaved', NEW d \in Cas, Answered(d, t)', Solo(proposed', ProposalOf(d)')
       PROVE  Records(system_paxos'[t], ProposalOf(d)')
  <2>1. ProposalOf(d)' = ProposalOf(d)
    BY <1>2, <1>10, <1>14 DEF Answered
  <2>2. Answered(d, t) \/ (d = c /\ t = r)
    BY <1>1, <1>2, <1>9, <1>14 DEF Answered, TypeInv, TypeOK
  <2>3. ProposalOf(d).ballot \in Nat
    BY <1>1 DEF ProposalOf, TypeInv, TypeOK
  <2>4. CASE d = c /\ t = r
    BY <1>2, <1>7, <1>8, <1>14, <2>1, <2>4 DEF p
  <2>5. CASE Answered(d, t)
    <3>1. Records(system_paxos[t], ProposalOf(d))
      BY <1>2, <1>8, <1>14, <2>1, <2>5 DEF RecInv, SavedOK
    <3>2. CASE t = r
      BY <1>7, <1>8, <2>1, <2>3, <3>1, <3>2
    <3>3. CASE t # r
      BY <1>8, <2>1, <3>1, <3>3
    <3> QED
      BY <3>2, <3>3
  <2> QED
    BY <2>2, <2>4, <2>5
<1>15. SavedOK'
  BY <1>10, <1>13, <1>14 DEF SavedOK
<1> QED
  BY <1>1, <1>8, <1>10, <1>12, <1>15 DEF RecInv

\* What a row gives back of a proposal.
LEMMA RestoredProposalFacts ==
    ASSUME NEW v, v = NoProposal \/ (v \in Proposal /\ Timestamp(v.ballot) >= 1)
    PROVE  /\ RestoredProposal(v) \in Kept
           /\ RestoredProposal(v).ballot = RestoredBallot(v.ballot)
           /\ RestoredProposal(v).mutation = v.mutation
           /\ v # NoProposal <=> RestoredProposal(v) # NoProposal
<1>0. v.ballot \in Nat /\ v \in [ballot : Nat, mutation : Mutation \cup {NoMutation}]
  <2>1. NoProposal \in [ballot : Nat, mutation : Mutation \cup {NoMutation}]
    BY SMT DEF NoProposal, BallotNone
  <2>2. v \in Proposal => v \in [ballot : Nat, mutation : Mutation \cup {NoMutation}]
    BY DEF Proposal
  <2> QED
    BY <2>1, <2>2
<1>1. /\ RestoredProposal(v).ballot = RestoredBallot(v.ballot) /\ RestoredProposal(v).mutation = v.mutation
      /\ RestoredProposal(v) = [ballot |-> RestoredBallot(v.ballot), mutation |-> v.mutation]
  <2> DEFINE b == RestoredBallot(v.ballot)
             n == [v EXCEPT !.ballot = b]
  <2>1. RestoredProposal(v) = n
    BY DEF RestoredProposal
  <2> HIDE DEF b
  <2>2. n = [ballot |-> b, mutation |-> v.mutation] /\ n.ballot = b /\ n.mutation = v.mutation
    BY SMT, <1>0
  <2> HIDE DEF n
  <2> QED
    BY <2>1, <2>2 DEF b
<1>2. CASE v = NoProposal
  <2>1. v.ballot = 0 /\ v.mutation = NoMutation
    BY <1>2 DEF NoProposal, BallotNone
  <2>2. RestoredBallot(0) = 0
    BY <1>0, RestoredFacts
  <2>3. RestoredProposal(v) = NoProposal
    BY <1>1, <2>1, <2>2 DEF NoProposal, BallotNone
  <2> QED
    BY <1>1, <1>2, <2>3 DEF Kept
<1>3. CASE v \in Proposal /\ Timestamp(v.ballot) >= 1
  <2>1. RestoredBallot(v.ballot) \in Nat /\ RestoredBallot(v.ballot) # 0
    BY <1>0, <1>3, RestoredFacts
  <2>2. v.mutation \in Mutation
    BY <1>3 DEF Proposal
  <2>3. RestoredProposal(v) \in Proposal
    BY <1>1, <2>1, <2>2 DEF Proposal
  <2>4. \A q \in Proposal : q # NoProposal
    <3>1. NoProposal.mutation = NoMutation
      BY DEF NoProposal
    <3>2. \A q \in Proposal : q.mutation \in Mutation
      BY DEF Proposal
    <3> QED
      BY <3>1, <3>2, NoMutationAssumption
  <2> QED
    BY <1>1, <1>3, <2>3, <2>4 DEF Kept
<1> QED
  BY <1>2, <1>3

\* What a row gives back is a state.
LEMMA LoadedType ==
    ASSUME RecInv, NEW r \in Replica
    PROVE  /\ LoadState(system_paxos[r]) \in PaxosStates /\ Recovered(system_paxos[r]) \in PaxosStates
           /\ HasInProgress(LoadState(system_paxos[r])) => LoadState(system_paxos[r]).accepted.mutation \in Mutation
<1> DEFINE row == system_paxos[r]
           b == row.in_progress_ballot.value
           v == row.proposal.value
           w == row.most_recent_commit.value
<1>1. b \in Nat /\ v \in proposed \cup {NoProposal} /\ w \in proposed \cup {NoProposal}
  BY DEF RecInv, RowsOK, RowOf, Row, CellOf
<1>2. \A p \in proposed : p \in Proposal /\ Timestamp(p.ballot) >= 1
  BY DEF RecInv, OwnOK, TypeInv, TypeOK
<1>3. /\ LoadState(row) = [promised |-> RestoredBallot(b), accepted |-> RestoredProposal(v), committed |-> RestoredProposal(w)]
      /\ LoadState(row).accepted = RestoredProposal(v)
  BY DEF LoadState
<1> HIDE DEF row, b, v, w
<1>4. RestoredBallot(b) \in Nat
  BY <1>1, RestoredFacts
<1>5. RestoredProposal(v) \in Kept /\ RestoredProposal(w) \in Kept
  BY <1>1, <1>2, RestoredProposalFacts
<1>6. LoadState(row) \in PaxosStates
  <2>1. [promised |-> RestoredBallot(b), accepted |-> RestoredProposal(v), committed |-> RestoredProposal(w)]
           \in [promised : Nat, accepted : Kept, committed : Kept]
    BY <1>4, <1>5
  <2> QED
    BY <1>3, <2>1 DEF PaxosStates, Kept
<1>7. PaxosStateNew \in PaxosStates
  BY SMT DEF PaxosStateNew, PaxosStates, NoProposal, BallotNone
<1>8. RestoredProposal(v) # NoProposal => RestoredProposal(v).mutation \in Mutation
  BY <1>5 DEF Kept, Proposal
<1>9. HasInProgress(LoadState(row)) => LoadState(row).accepted.mutation \in Mutation
  BY <1>3, <1>8 DEF HasInProgress
<1>10. Recovered(row) \in PaxosStates
  BY <1>6, <1>7 DEF Recovered
<1> QED
  BY <1>6, <1>9, <1>10 DEF row

\* A replica restarts.
LEMMA RestartRec ==
    ASSUME RecInv, NEW r \in Replica, Restart(r)
    PROVE  RecInv'
<1> DEFINE n == Recovered(system_paxos[r])
<1>1. /\ restarts' = [restarts EXCEPT ![r] = restarts[r] + 1] /\ states' = [states EXCEPT ![r] = n]
      /\ UNCHANGED <<pc, mutation, attempts, ballot, heard, acks, in_progress, clock, votes, proposed, system_paxos, unsaved>>
  BY DEF Restart
<1>2. n \in PaxosStates
  BY LoadedType
<1> HIDE DEF n
<1>3. TypeInv'
  <2>1. TypeOK'
    BY <1>1, <1>2 DEF RecInv, TypeInv, TypeOK
  <2>2. CallOK'
    BY <1>1 DEF RecInv, TypeInv, CallOK, BallotBound, Owns
  <2> QED
    BY <2>1, <2>2 DEF TypeInv
<1>4. /\ restarts' \in [Replica -> Nat] /\ restarts'[r] # 0
      /\ \A t \in Replica : t # r => restarts'[t] = restarts[t] /\ states'[t] = states[t]
  <2>1. restarts[r] + 1 \in Nat /\ restarts[r] + 1 # 0 /\ restarts \in [Replica -> Nat] /\ states \in [Replica -> PaxosStates]
    <3>1. restarts[r] \in Nat
      BY DEF RecInv, RowsOK
    <3>2. restarts[r] + 1 \in Nat /\ restarts[r] + 1 # 0
      BY SMT, <3>1
    <3> QED
      BY <3>2 DEF RecInv, RowsOK, TypeInv, TypeOK
  <2> QED
    BY <1>1, <2>1
<1>5. RowsOK'
  BY <1>1, <1>4 DEF RecInv, RowsOK
<1>6. OwnOK'
  BY <1>1 DEF RecInv, OwnOK, Owns, Spent, ProposalOf
<1>7. \A t \in Replica : restarts'[t] = 0 => Fresh(t)'
  <2>1. \A t \in Replica : t # r => (Fresh(t) => Fresh(t)')
    BY <1>1, <1>4 DEF Fresh, Visited
  <2> QED
    BY <1>4, <2>1 DEF RecInv
<1>8. SavedOK'
  <2>1. \A t \in Replica : t # r => (Follows(t) => Follows(t)')
    BY <1>1, <1>4 DEF Follows
  <2>2. \A t \in Replica \ unsaved' : restarts'[t] = 0 => Follows(t)'
    BY <1>1, <1>4, <2>1 DEF RecInv, SavedOK
  <2>3. \A t \in Replica, d \in Cas : Answered(d, t)' = Answered(d, t) /\ ProposalOf(d)' = ProposalOf(d)
    BY <1>1 DEF Answered, ProposalOf
  <2>4. \A t \in Replica \ unsaved', d \in Cas :
          Answered(d, t)' /\ Solo(proposed', ProposalOf(d)') => Records(system_paxos'[t], ProposalOf(d)')
    BY <1>1, <2>3 DEF RecInv, SavedOK
  <2>5. \A d \in Cas : pc'[d] = "Success" => in_progress'[d] = NoProposal
    BY <1>1 DEF RecInv, SavedOK
  <2> QED
    BY <2>2, <2>4, <2>5 DEF SavedOK
<1> QED
  BY <1>3, <1>5, <1>6, <1>7, <1>8 DEF RecInv

-----------------------------------------------------------------------------
\* RecInv holds initially.
LEMMA RecInit == RecoveryInit => RecInv
<1> SUFFICES ASSUME RecoveryInit PROVE RecInv
  OBVIOUS
<1>1. TypeInv
  BY TypeInit DEF RecoveryInit
<1>2. /\ states = [r \in Replica |-> PaxosStateNew] /\ pc = [c \in Cas |-> "idle"] /\ proposed = {}
      /\ system_paxos = [r \in Replica |-> EmptyRow] /\ restarts = [r \in Replica |-> 0] /\ unsaved = {}
  BY DEF RecoveryInit, Init
<1>3. NoProposal \in Kept /\ Timestamp(NoProposal.ballot) = 0 /\ NoProposal.ballot = 0 /\ 0 \in Nat /\ 0 <= 0
  <2>1. 0 \in Nat /\ 0 <= 0
    BY SMT
  <2> QED
    BY <2>1, ProposalTimestamp DEF Kept, NoProposal, BallotNone
<1>4. /\ Tombstone(0, NoProposal) \in CellOf(Kept) /\ Tombstone(0, BallotNone) \in CellOf(Nat)
      /\ Tombstone(0, NoProposal).value = NoProposal /\ Tombstone(0, NoProposal).timestamp = 0
      /\ Tombstone(0, NoProposal).is_tombstone = TRUE
  <2>1. BallotNone \in Nat
    BY SMT DEF BallotNone
  <2> QED
    BY <1>3, <2>1 DEF Tombstone, CellOf
<1>5. /\ EmptyRow \in Row /\ EmptyRow.proposal = Tombstone(0, NoProposal)
      /\ EmptyRow.most_recent_commit = Tombstone(0, NoProposal)
  BY <1>4 DEF EmptyRow, Row
<1>6. RowOf(EmptyRow, proposed)
  BY <1>3, <1>4, <1>5 DEF RowOf
<1>7. RowsOK
  BY <1>2, <1>3, <1>5, <1>6 DEF RowsOK
<1>8. OwnOK
  BY <1>2 DEF OwnOK, Active
<1>9. /\ PaxosStateNew.accepted = NoProposal /\ PaxosStateNew.committed = NoProposal
  BY DEF PaxosStateNew
<1>10. \A r \in Replica : Fresh(r)
  BY <1>2, <1>9 DEF Fresh, Visited
<1>11. \A r \in Replica : Follows(r)
  BY <1>2, <1>3, <1>4, <1>5, <1>9 DEF Follows
<1>12. SavedOK
  BY <1>2, <1>11 DEF SavedOK, Answered
<1> QED
  BY <1>1, <1>7, <1>8, <1>10, <1>12 DEF RecInv

\* The steps of a call that touch no replica.
LEMMA LocalCases ==
    ASSUME NEW c \in Cas, LocalStep(c) \/ ConditionNotMet(c)
    PROVE  \/ StartRound(c) \/ Moves(c)
           \/ (PhaseOver(c, "prepare") \/ pc[c] = "read") /\ BeginPropose(c)
BY DEF LocalStep, AbortContention, NoQuorum, AdoptInProgress, AwaitRead,
       ConditionMet, ConditionNotMet, AcceptedByQuorum, EndRound, AfterCommit,
       PhaseOver, Moves

\* RecInv is inductive.
LEMMA RecNext ==
    ASSUME OneCasPerNode, RecInv, [RecoveryNext]_<<vars, storage>>
    PROVE  RecInv'
<1>1. ASSUME NEW c \in Cas, LocalStep(c) \/ ConditionNotMet(c), UNCHANGED storage PROVE RecInv'
  BY <1>1, LocalCases, StartRoundRec, MovesRec, BeginProposeRec
<1>2. ASSUME NEW c \in Cas, StoredStep(c) PROVE RecInv'
  <2>1. CASE c \notin Repair /\ Invoke(c, c) /\ UNCHANGED storage
    BY <2>1, InvokeRec, MutationAssumption
  <2>2. CASE c \notin Repair /\ ConditionNotMet(c) /\ UNCHANGED storage
    BY <1>1, <2>2
  <2>3. ASSUME NEW r \in Replica, RepairUncommitted(c, r) PROVE RecInv'
    BY <2>3, InvokeRec, LoadedType DEF RepairUncommitted
  <2>4. CASE LocalStep(c) /\ UNCHANGED storage
    BY <1>1, <2>4
  <2>5. ASSUME NEW r \in Replica, StoredPrepare(c, r) PROVE RecInv'
    BY <2>5, PrepareRec
  <2>6. ASSUME NEW r \in Replica, StoredPropose(c, r) PROVE RecInv'
    BY <2>6, ProposeRec
  <2>7. ASSUME NEW r \in Replica, StoredCommit(c, r) PROVE RecInv'
    BY <2>7, CommitRec
  <2> QED
    BY <1>2, <2>1, <2>2, <2>3, <2>4, <2>5, <2>6, <2>7 DEF StoredStep
<1>3. ASSUME NEW r \in Replica, Restart(r) PROVE RecInv'
  BY <1>3, RestartRec
<1>4. CASE UNCHANGED <<vars, storage>>
  <2>1. UNCHANGED <<states, pc, mutation, attempts, ballot, heard, acks, in_progress, clock, votes, proposed,
                    system_paxos, restarts, unsaved>>
    BY <1>4 DEF vars, storage
  <2>2. TypeInv'
    BY <2>1 DEF RecInv, TypeInv, TypeOK, CallOK, BallotBound, Owns
  <2>3. RowsOK' /\ OwnOK'
    BY <2>1 DEF RecInv, RowsOK, OwnOK, Owns, Spent, ProposalOf
  <2>4. \A r \in Replica : restarts'[r] = 0 => Fresh(r)'
    BY <2>1 DEF RecInv, Fresh, Visited
  <2>5. SavedOK'
    BY <2>1 DEF RecInv, SavedOK, Follows, Answered, ProposalOf
  <2> QED
    BY <2>2, <2>3, <2>4, <2>5 DEF RecInv
<1> QED
  BY <1>2, <1>3, <1>4 DEF RecoveryNext

\* The invariant holds at all times, whatever restarts and failed writes come between.
LEMMA RecAlways == OneCasPerNode => (RecoverySpec => []RecInv)
<1>1. OneCasPerNode /\ RecInv /\ [RecoveryNext]_<<vars, storage>> => RecInv'
  BY RecNext
<1>2. OneCasPerNode => OneCasPerNode'
  BY DEF OneCasPerNode
<1> QED
  BY <1>1, <1>2, RecInit, PTL DEF RecoverySpec

\* "State is persisted locally in the system.paxos table to ensure node restarts do not
\* lose accepted proposals" (transactions_and_consensus.md:14), for calls of different
\* nodes: what a replica has accepted comes back from its row, if it is alone in its
\* microsecond, no write of the row failed and the replica has not restarted before.
THEOREM AcceptedComesBack ==
    ASSUME OneCasPerNode
    PROVE  RecoverySpec => []AcceptedIsStored
<1>1. RecInv => AcceptedIsStored
  <2> SUFFICES ASSUME RecInv, NEW r \in Replica \ unsaved, states[r].accepted # NoProposal,
                      restarts[r] = 0, Untied(states[r].accepted)
               PROVE  Recovered(system_paxos[r]).accepted = RestoredProposal(states[r].accepted)
    BY DEF AcceptedIsStored
  <2> DEFINE p == states[r].accepted
             k == states[r].committed
             row == system_paxos[r]
             w == row.most_recent_commit.value
  <2>1. Fresh(r) /\ Follows(r) /\ Solo(proposed, p)
    BY DEF RecInv, SavedOK, Untied, Solo
  <2>2. /\ p \in proposed /\ p \in Proposal /\ p.ballot \in Nat /\ k.ballot \in Nat /\ k \in Kept
        /\ Timestamp(p.ballot) >= 1 /\ p.ballot > k.ballot /\ k \in proposed \cup {NoProposal}
    <3>1. p \in proposed /\ p.ballot > k.ballot /\ k \in proposed \cup {NoProposal}
      BY <2>1 DEF Fresh
    <3> QED
      BY <3>1, StateTypes DEF RecInv, OwnOK, TypeInv, TypeOK
  <2>3. row.proposal = LiveCell(Timestamp(p.ballot), p) /\ row.most_recent_commit.timestamp = Timestamp(k.ballot)
    BY <2>1 DEF Follows
  <2>4. row.proposal.value = p
    <3>1. LiveCell(Timestamp(p.ballot), p).value = p
      BY DEF LiveCell
    <3> QED
      BY <2>3, <3>1
  <2>5. /\ w \in proposed \cup {NoProposal} /\ w \in Kept /\ Timestamp(w.ballot) = Timestamp(k.ballot)
        /\ (w = NoProposal \/ (w \in Proposal /\ Timestamp(w.ballot) >= 1))
    BY <2>3 DEF RecInv, RowsOK, RowOf, Kept, TypeInv, TypeOK, OwnOK
  <2>6. Timestamp(w.ballot) < Timestamp(p.ballot)
    <3>1. k.ballot <= p.ballot /\ k.ballot # p.ballot
      <4> HIDE DEF k, p
      <4> QED
        BY SMT, <2>2
    <3>2. Timestamp(k.ballot) <= Timestamp(p.ballot)
      BY <2>2, <3>1, TimestampMonotone
    <3>3. Timestamp(k.ballot) # Timestamp(p.ballot)
      <4>1. CASE k \in proposed
        BY <2>1, <3>1, <4>1 DEF Solo
      <4>2. CASE k = NoProposal
        <5>1. Timestamp(k.ballot) = 0
          BY <2>2, <4>2, ProposalTimestamp
        <5>2. Timestamp(p.ballot) # 0
          <6> HIDE DEF p
          <6>1. Timestamp(p.ballot) \in Nat
            BY <2>2, TimestampSplits
          <6> QED
            BY SMT, <2>2, <6>1
        <5> QED
          BY <5>1, <5>2
      <4> QED
        BY <2>2, <4>1, <4>2
    <3>4. Timestamp(k.ballot) \in Nat /\ Timestamp(p.ballot) \in Nat
      BY <2>2, TimestampSplits
    <3> HIDE DEF k, p, w
    <3> QED
      BY SMT, <2>5, <3>2, <3>3, <3>4
  <2>7. /\ LoadState(row).accepted = RestoredProposal(p) /\ LoadState(row).committed = RestoredProposal(w)
    BY <2>4 DEF LoadState
  <2>8. RestoredProposal(p) # NoProposal /\ RestoredProposal(p).ballot = RestoredBallot(p.ballot)
    BY <2>2, RestoredProposalFacts
  <2>9. RestoredProposal(w).ballot = RestoredBallot(w.ballot)
    BY <2>5, RestoredProposalFacts
  <2>10. RestoredBallot(p.ballot) > RestoredBallot(w.ballot)
    <3> DEFINE x == RestoredBallot(p.ballot)
               y == RestoredBallot(w.ballot)
    <3>1. w.ballot \in Nat
      BY <2>5, ProposalTimestamp
    <3>2. x \in Nat /\ y \in Nat /\ Timestamp(y) < Timestamp(x) /\ Timestamp(x) \in Nat /\ Timestamp(y) \in Nat
      BY <2>2, <2>6, <3>1, RestoredFacts, TimestampSplits
    <3> HIDE DEF x, y
    <3>3. x <= y => Timestamp(x) <= Timestamp(y)
      BY <3>2, TimestampMonotone
    <3>4. x > y
      BY SMT, <3>2, <3>3
    <3> QED
      BY <3>4 DEF x, y
  <2>11. HasInProgress(LoadState(row))
    BY <2>7, <2>8, <2>9, <2>10 DEF HasInProgress
  <2> QED
    BY <2>7, <2>11 DEF Recovered
<1>2. RecoverySpec => []RecInv
  BY RecAlways
<1> QED
  BY <1>1, <1>2, PTL

\* A CAS reported as a success is in the row of every replica none of whose writes failed
\* (handle_commit, save_commit), whatever restarts come between, for calls of different
\* nodes: the commit is alone in its microsecond, and gives way only to a later one.
THEOREM SuccessIsRecorded ==
    ASSUME OneCasPerNode
    PROVE  RecoverySpec => []SuccessIsStored
<1>1. RecInv => SuccessIsStored
  <2> SUFFICES ASSUME RecInv, NEW c \in Cas, pc[c] = "Success",
                      Untied([ballot |-> ballot[c], mutation |-> mutation[c]]), NEW r \in Replica \ unsaved
               PROVE  LET own == [ballot |-> ballot[c], mutation |-> mutation[c]]
                          stored == LoadState(system_paxos[r]).committed
                      IN  stored = RestoredProposal(own) \/ Timestamp(stored.ballot) > Timestamp(own.ballot)
    BY DEF SuccessIsStored
  <2> DEFINE own == [ballot |-> ballot[c], mutation |-> mutation[c]]
             w == system_paxos[r].most_recent_commit.value
  <2>1. ProposalOf(c) = own
    BY DEF RecInv, SavedOK, ProposalOf
  <2>2. w = own \/ Timestamp(w.ballot) > Timestamp(own.ballot)
    <3>1. Solo(proposed, own)
      BY DEF Untied, Solo
    <3> HIDE DEF own
    <3>2. Records(system_paxos[r], own)
      BY <2>1, <3>1 DEF RecInv, SavedOK, Answered
    <3> QED
      BY <3>2 DEF Records
  <2>3. w \in Kept /\ (w = NoProposal \/ (w \in Proposal /\ Timestamp(w.ballot) >= 1))
    BY DEF RecInv, RowsOK, RowOf, Kept, TypeInv, TypeOK, OwnOK
  <2>4. LoadState(system_paxos[r]).committed = RestoredProposal(w)
    BY DEF LoadState
  <2>5. Timestamp(RestoredProposal(w).ballot) = Timestamp(w.ballot)
    <3>1. w.ballot \in Nat
      BY <2>3, ProposalTimestamp
    <3> QED
      BY <2>3, <3>1, RestoredProposalFacts, RestoredFacts
  <2> HIDE DEF own, w
  <2>6. \/ LoadState(system_paxos[r]).committed = RestoredProposal(own)
        \/ Timestamp(LoadState(system_paxos[r]).committed.ballot) > Timestamp(own.ballot)
    BY <2>2, <2>4, <2>5
  <2> QED
    BY <2>6 DEF own
<1>2. RecoverySpec => []RecInv
  BY RecAlways
<1> QED
  BY <1>1, <1>2, PTL
=============================================================================
