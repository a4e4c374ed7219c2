----------------------------- MODULE PaxosProofs ----------------------------
(***************************************************************************)
(* Type correctness of Paxos, for any number of replicas, calls, nodes and *)
(* retries, any quorum size and any order of the replicas in each Vec, and *)
(* the safety of the rounds of execute_cas for calls of different          *)
(* coordinator nodes: the theorems TypeCorrect, NoRival, BallotsAreUnique  *)
(* and ReadIsStable, then what a commit means.                             *)
(***************************************************************************)
EXTENDS PaxosInvariants, Integers, FiniteSetTheorems, TLAPS

\* A leaf is for Zenon, unless it names another prover.
USE Zenon

-----------------------------------------------------------------------------
\* Ballots.

\* A ballot with a timestamp is a natural number, and not Ballot::none().
LEMMA BallotIsNat ==
    ASSUME NEW t \in Nat, NEW k \in Nat
    PROVE  /\ BallotWithTimestamp(t, k) \in Nat
           /\ t > 0 => BallotWithTimestamp(t, k) > 0
<1>1. t * Ranks \in Nat
  BY SMT, RanksAssumption
<1>2. t > 0 => t * Ranks >= 1
  BY SMT, RanksAssumption
<1> QED  BY SMT, <1>1, <1>2 DEF BallotWithTimestamp

\* Ballots are compared by timestamp first, then by node id (ballot.rs:99-105).
LEMMA BallotLexicographic ==
    ASSUME NEW t \in Nat, NEW u \in Nat, t < u,
           NEW j \in 0 .. Ranks - 1, NEW k \in 0 .. Ranks - 1
    PROVE  BallotWithTimestamp(t, j) < BallotWithTimestamp(u, k)
<1> DEFINE d == u - t - 1
<1>1. d \in Nat /\ u = t + 1 + d
  BY SMT
<1> HIDE DEF d
<1>2. u * Ranks = t * Ranks + Ranks + d * Ranks
  BY SMT, <1>1, RanksAssumption
<1>3. d * Ranks \in Nat /\ t * Ranks \in Nat /\ u * Ranks \in Nat
  BY SMT, <1>1, RanksAssumption
<1> QED  BY SMT, <1>2, <1>3, RanksAssumption DEF BallotWithTimestamp

\* A ballot names its node.
LEMMA BallotNamesNode ==
    ASSUME NEW t \in Nat, NEW u \in Nat,
           NEW j \in 0 .. Ranks - 1, NEW k \in 0 .. Ranks - 1,
           BallotWithTimestamp(t, j) = BallotWithTimestamp(u, k)
    PROVE  j = k
<1>1. BallotWithTimestamp(t, j) \in Nat /\ BallotWithTimestamp(u, k) \in Nat
  BY SMT, BallotIsNat, RanksAssumption
<1>2. ~(t < u)
  BY SMT, <1>1, BallotLexicographic
<1>3. ~(u < t)
  BY SMT, <1>1, BallotLexicographic
<1>4. t = u /\ t * Ranks \in Nat
  BY SMT, <1>2, <1>3, RanksAssumption
<1> QED  BY SMT, <1>4, RanksAssumption DEF BallotWithTimestamp

-----------------------------------------------------------------------------
\* The operators of PaxosState.

\* prepare() raises the promise to the ballot and changes nothing else.
LEMMA PrepareFacts ==
    ASSUME NEW s \in PaxosStates, NEW b \in Nat
    PROVE  /\ Prepare(s, b) \in PaxosStates
           /\ Prepare(s, b).promised >= b
           /\ Prepare(s, b).promised >= s.promised
           /\ Prepare(s, b).accepted = s.accepted
           /\ Prepare(s, b).committed = s.committed
BY SMT DEF Prepare, PaxosStates

\* propose() takes the proposal and its ballot as the promise, or nothing.
LEMMA ProposeFacts ==
    ASSUME NEW s \in PaxosStates, NEW p \in Proposal
    PROVE  /\ Propose(s, p) \in PaxosStates
           /\ Propose(s, p).promised >= s.promised
           /\ Propose(s, p).committed = s.committed
           /\ Accepts(s, p) => /\ p.ballot >= s.promised
                               /\ Propose(s, p).promised = p.ballot
                               /\ Propose(s, p).accepted = p
           /\ ~Accepts(s, p) => Propose(s, p) = s
<1>1. CASE Accepts(s, p)
  <2>1. Propose(s, p) = [s EXCEPT !.promised = p.ballot, !.accepted = p]
    BY <1>1 DEF Propose
  <2>2. p.ballot \in Nat /\ p.ballot >= s.promised /\ s.promised \in Nat
    BY <1>1 DEF Accepts, Proposal, PaxosStates
  <2>3. [s EXCEPT !.promised = p.ballot, !.accepted = p] \in PaxosStates
    BY <2>2 DEF PaxosStates
  <2> HIDE DEF Proposal, NoProposal
  <2> QED  BY <1>1, <2>1, <2>2, <2>3 DEF PaxosStates
<1>2. CASE ~Accepts(s, p)
  BY SMT, <1>2 DEF Propose, PaxosStates
<1> QED  BY <1>1, <1>2

\* commit() only advances the commit and drops an accepted proposal that is
\* not newer than it.
LEMMA CommitFacts ==
    ASSUME NEW s \in PaxosStates, NEW p \in Proposal
    PROVE  /\ Commit(s, p) \in PaxosStates
           /\ Commit(s, p).promised = s.promised
           /\ Commit(s, p).committed \in {p, s.committed}
           /\ Commit(s, p).committed.ballot >= p.ballot
           /\ Commit(s, p).committed.ballot >= s.committed.ballot
           /\ \/ Commit(s, p).committed = s.committed
              \/ Commit(s, p).committed.ballot > s.committed.ballot
           /\ \/ /\ Commit(s, p).accepted = s.accepted
                 /\ s.accepted.ballot > Commit(s, p).committed.ballot
              \/ /\ Commit(s, p).accepted = NoProposal
                 /\ s.accepted.ballot <= Commit(s, p).committed.ballot
<1> DEFINE n == NewestCommit(s, p)
           a == IF s.accepted.ballot <= n.ballot THEN NoProposal ELSE s.accepted
<1>1. /\ p.ballot \in Nat
      /\ s.committed.ballot \in Nat
      /\ s.accepted.ballot \in Nat
  BY SMT DEF PaxosStates, Proposal, NoProposal, BallotNone
<1>2. /\ n \in Proposal \cup {NoProposal}
      /\ n \in {p, s.committed}
      /\ n.ballot >= p.ballot
      /\ n.ballot >= s.committed.ballot
      /\ n = s.committed \/ n.ballot > s.committed.ballot
  BY SMT, <1>1 DEF NewestCommit, PaxosStates
<1>3. n.ballot \in Nat
  BY <1>1, <1>2
<1>4. Commit(s, p) = [s EXCEPT !.committed = n, !.accepted = a]
  BY DEF Commit, PaxosStates
<1>5. a \in Proposal \cup {NoProposal}
  BY DEF PaxosStates
<1> HIDE DEF n, a
<1>6. [s EXCEPT !.committed = n, !.accepted = a] \in PaxosStates
  BY <1>2, <1>5 DEF PaxosStates
<1>7. /\ Commit(s, p).promised = s.promised
      /\ Commit(s, p).committed = n
      /\ Commit(s, p).accepted = a
  BY <1>4 DEF PaxosStates
<1>8. \/ a = s.accepted /\ s.accepted.ballot > n.ballot
      \/ a = NoProposal /\ s.accepted.ballot <= n.ballot
  BY SMT, <1>1, <1>3 DEF a
<1> QED  BY <1>2, <1>4, <1>6, <1>7, <1>8

-----------------------------------------------------------------------------
\* Types, and what the variables of one call say about each other.

\* The rank of a coordinator node is one of the Ranks.
LEMMA NodeRankNat ==
    ASSUME NEW c \in Cas
    PROVE  NodeRank[c] \in Nat /\ NodeRank[c] \in 0 .. Ranks - 1
BY SMT, NodeRankAssumption, RanksAssumption

\* Ballots of distinct calls are distinct.
LEMMA OwnerIsUnique ==
    ASSUME OneCasPerNode, NEW c \in Cas, NEW d \in Cas, NEW b, Owns(c, b), Owns(d, b)
    PROVE  c = d
BY BallotNamesNode, NodeRankNat DEF Owns, OneCasPerNode

\* The proposal of a round is a proposal.
LEMMA ProposalOfType ==
    ASSUME TypeInv, NEW c \in Cas, pc[c] \in Active
    PROVE  /\ ProposalOf(c) \in Proposal
           /\ ProposalOf(c).ballot = ballot[c]
<1>1. ballot[c] \in Nat \ {0} /\ mutation[c] \in Mutation
  BY SMT DEF TypeInv, TypeOK, CallOK, Active
<1>2. in_progress[c] # NoProposal => in_progress[c].mutation \in Mutation
  BY DEF TypeInv, TypeOK, Proposal
<1> QED  BY <1>1, <1>2 DEF ProposalOf, Proposal

\* Moving a call to another phase keeps TypeInv.
LEMMA MoveToType ==
    ASSUME TypeInv, NEW c \in Cas, NEW ph \in (Phases \cup Results) \ {"idle"},
           pc[c] # "idle", MoveTo(c, ph),
           ph \in Active => pc[c] \in Active,
           ph = "read" => in_progress[c] = NoProposal
    PROVE  TypeInv'
<1>1. TypeOK'
  BY DEF TypeInv, TypeOK, MoveTo, Goto
<1>2. CallOK'
  BY DEF TypeInv, TypeOK, CallOK, MoveTo, Goto, BallotBound, Owns
<1> QED  BY <1>1, <1>2 DEF TypeInv

\* A new round has a strictly newer ballot ("Ensure strictly newer ballot",
\* coordinator.rs:332), whatever the clock shows, as long as it does not go
\* back.
LEMMA NewRoundBallot ==
    ASSUME TypeInv, NEW c \in Cas, StartRound(c)
    PROVE  /\ ballot'[c] \in Nat
           /\ ballot'[c] > ballot[c]
           /\ ballot'[c] <= BallotBound(c)'
           /\ Owns(c, ballot'[c])
           /\ clock' \in [0 .. Ranks - 1 -> Nat \ {0}]
           /\ \A n \in 0 .. Ranks - 1 : clock'[n] >= clock[n]
<1> DEFINE n == NodeRank[c]
           k == attempts[c] + 1
<1>1. PICK now \in clock[n] .. MaxClock :
          /\ clock' = [clock EXCEPT ![n] = now]
          /\ ballot' = [ballot EXCEPT ![c] =
                 BallotWithTimestamp(BallotTimestamp(now, k), n)]
  BY DEF StartRound, StartRoundWith
<1>2. /\ n \in Nat /\ n \in 0 .. Ranks - 1
      /\ clock[n] \in Nat \ {0} /\ now \in Nat \ {0} /\ now >= clock[n]
      /\ attempts[c] \in Nat /\ k \in Nat /\ k >= 1
      /\ attempts' = [attempts EXCEPT ![c] = k]
      /\ ballot[c] \in Nat
  BY SMT, NodeRankNat, ClockAssumption, RetriesAssumption
     DEF TypeInv, TypeOK, StartRound, StartRoundWith
<1>a. clock \in [0 .. Ranks - 1 -> Nat \ {0}]
  BY DEF TypeInv, TypeOK
<1> HIDE DEF n, k
<1>3. /\ clock' \in [0 .. Ranks - 1 -> Nat \ {0}]
      /\ clock'[n] = now
      /\ \A m \in 0 .. Ranks - 1 : clock'[m] >= clock[m]
  BY SMT, <1>1, <1>2, <1>a
<1> DEFINE t == BallotTimestamp(now, k)
<1>4. t \in Nat /\ t > 0 /\ t <= now + k
  BY SMT, <1>2 DEF BallotTimestamp
<1>5. ballot'[c] = BallotWithTimestamp(t, n)
  BY <1>1 DEF TypeInv, TypeOK
<1> HIDE DEF t
<1>6. ballot'[c] \in Nat /\ ballot'[c] > 0 /\ Owns(c, ballot'[c])
  BY <1>2, <1>4, <1>5, BallotIsNat DEF Owns, n
<1>7. ballot'[c] <= BallotBound(c)'
  <2>1. BallotBound(c)' = BallotWithTimestamp(now + k, n)
    BY <1>2, <1>3 DEF BallotBound, TypeInv, TypeOK, n
  <2>2. t = now + k \/ t < now + k
    BY SMT, <1>2, <1>4
  <2>3. now + k \in Nat /\ BallotWithTimestamp(now + k, n) \in Nat
    <3>1. now + k \in Nat
      BY SMT, <1>2
    <3> QED  BY <1>2, <3>1, BallotIsNat
  <2> QED  BY SMT, <1>2, <1>4, <1>5, <1>6, <2>1, <2>2, <2>3, BallotLexicographic
<1>8. ballot'[c] > ballot[c]
  <2>1. CASE attempts[c] = 0
    BY <1>2, <1>6, <2>1 DEF TypeInv, CallOK
  <2>2. CASE attempts[c] # 0
    <3>1. t = now + k
      BY SMT, <1>2, <2>2 DEF t, k, BallotTimestamp
    <3>2. clock[n] + attempts[c] < t /\ clock[n] + attempts[c] \in Nat
      BY SMT, <1>2, <3>1 DEF k
    <3>3. BallotWithTimestamp(clock[n] + attempts[c], n) < ballot'[c]
      BY <1>2, <1>4, <1>5, <3>2, BallotLexicographic
    <3>4. ballot[c] <= BallotWithTimestamp(clock[n] + attempts[c], n)
      BY DEF TypeInv, CallOK, BallotBound, n
    <3>5. BallotWithTimestamp(clock[n] + attempts[c], n) \in Nat
      BY <1>2, <3>2, BallotIsNat
    <3> QED  BY SMT, <1>2, <1>6, <3>3, <3>4, <3>5
  <2> QED  BY <2>1, <2>2
<1> QED  BY <1>3, <1>6, <1>7, <1>8

\* TypeInv holds initially.
LEMMA TypeInit == Init => TypeInv
<1> SUFFICES ASSUME Init PROVE TypeInv
  OBVIOUS
<1>1. TypeOK
  BY SMT, RanksAssumption, RetriesAssumption
     DEF Init, TypeOK, PaxosStates, PaxosStateNew, Phases, BallotNone
<1>2. ASSUME NEW c \in Cas PROVE BallotBound(c) \in Nat
  <2>1. clock[NodeRank[c]] + attempts[c] \in Nat /\ NodeRank[c] \in Nat
    BY SMT, <1>1, NodeRankNat DEF TypeOK
  <2> QED  BY <2>1, BallotIsNat DEF BallotBound
<1>3. CallOK
  BY SMT, <1>1, <1>2 DEF Init, CallOK, Active, BallotNone
<1> QED  BY <1>1, <1>3 DEF TypeInv

\* A new round of execute_cas takes a ballot that is its own.
LEMMA StartRoundType ==
    ASSUME TypeInv, NEW c \in Cas, StartRound(c)
    PROVE  TypeInv'
<1>1. /\ attempts' = [attempts EXCEPT ![c] = attempts[c] + 1]
      /\ attempts[c] + 1 \in 1 .. max_contention_retries
      /\ pc' = [pc EXCEPT ![c] = "prepare"]
      /\ pc[c] = "loop"
      /\ heard' = [heard EXCEPT ![c] = {}]
      /\ acks' = [acks EXCEPT ![c] = {}]
      /\ in_progress' = [in_progress EXCEPT ![c] = NoProposal]
      /\ UNCHANGED <<states, mutation, votes, proposed>>
  <2>1. attempts[c] + 1 \in 1 .. max_contention_retries
    BY SMT, RetriesAssumption DEF TypeInv, TypeOK, StartRound
  <2> QED  BY <2>1 DEF StartRound, StartRoundWith, Goto
<1>b. /\ ballot' = [ballot EXCEPT ![c] = ballot'[c]]
      /\ ballot' \in [Cas -> Nat]
  <2>1. PICK b : ballot' = [ballot EXCEPT ![c] = b]
    BY DEF StartRound, StartRoundWith
  <2>2. ballot'[c] \in Nat
    BY NewRoundBallot
  <2> QED  BY <2>1, <2>2 DEF TypeInv, TypeOK
<1>2. TypeOK'
  <2>1. attempts' \in [Cas -> 0 .. max_contention_retries]
    BY SMT, <1>1, RetriesAssumption DEF TypeInv, TypeOK
  <2>2. clock' \in [0 .. Ranks - 1 -> Nat \ {0}]
    BY NewRoundBallot
  <2> QED  BY <1>1, <1>b, <2>1, <2>2 DEF TypeInv, TypeOK, Phases
<1>3. ASSUME NEW d \in Cas, d # c
      PROVE  ballot'[d] <= BallotBound(d)'
  <2>1. /\ ballot'[d] = ballot[d] /\ attempts'[d] = attempts[d]
        /\ ballot[d] \in Nat /\ attempts[d] \in Nat
        /\ NodeRank[d] \in Nat /\ NodeRank[d] \in 0 .. Ranks - 1
    BY SMT, <1>1, <1>b, <1>3, NodeRankNat, RetriesAssumption DEF TypeInv, TypeOK
  <2>2. /\ clock[NodeRank[d]] \in Nat
        /\ clock'[NodeRank[d]] \in Nat
        /\ clock'[NodeRank[d]] >= clock[NodeRank[d]]
    BY <2>1, NewRoundBallot DEF TypeInv, TypeOK
  <2> DEFINE old == clock[NodeRank[d]] + attempts[d]
             new == clock'[NodeRank[d]] + attempts[d]
  <2>3. old \in Nat /\ new \in Nat /\ (old = new \/ old < new)
    BY SMT, <2>1, <2>2
  <2>4. BallotBound(d) = BallotWithTimestamp(old, NodeRank[d])
    BY DEF BallotBound
  <2>5. BallotBound(d)' = BallotWithTimestamp(new, NodeRank[d])
    BY <2>1 DEF BallotBound
  <2> HIDE DEF old, new
  <2>6. /\ BallotWithTimestamp(old, NodeRank[d]) \in Nat
        /\ BallotWithTimestamp(new, NodeRank[d]) \in Nat
        /\ BallotWithTimestamp(old, NodeRank[d]) <= BallotWithTimestamp(new, NodeRank[d])
    <3>1. /\ BallotWithTimestamp(old, NodeRank[d]) \in Nat
          /\ BallotWithTimestamp(new, NodeRank[d]) \in Nat
      BY <2>1, <2>3, BallotIsNat
    <3>2. CASE old = new
      BY SMT, <3>1, <3>2
    <3>3. CASE old < new
      BY SMT, <2>1, <2>3, <3>1, <3>3, BallotLexicographic
    <3> QED  BY <2>3, <3>1, <3>2, <3>3
  <2>7. ballot[d] <= BallotBound(d)
    BY DEF TypeInv, CallOK
  <2> QED  BY SMT, <2>1, <2>4, <2>5, <2>6, <2>7
<1>4. CallOK'
  <2> SUFFICES ASSUME NEW d \in Cas
               PROVE  /\ pc'[d] # "idle" => mutation'[d] \in Mutation
                      /\ pc'[d] \in Active => ballot'[d] > 0 /\ Owns(d, ballot'[d])
                      /\ attempts'[d] = 0 => ballot'[d] = 0
                      /\ ballot'[d] <= BallotBound(d)'
                      /\ pc'[d] = "read" => in_progress'[d] = NoProposal
    BY DEF CallOK, Owns
  <2>1. CASE d = c
    <3>1. ballot'[c] > 0
      BY SMT, NewRoundBallot DEF TypeInv, TypeOK
    <3>2. /\ pc'[c] = "prepare" /\ mutation'[c] = mutation[c]
          /\ attempts'[c] # 0 /\ mutation[c] \in Mutation
      BY SMT, <1>1 DEF TypeInv, TypeOK, CallOK
    <3> QED  BY <2>1, <3>1, <3>2, NewRoundBallot
  <2>2. CASE d # c
    <3>1. /\ pc'[d] = pc[d] /\ mutation'[d] = mutation[d] /\ ballot'[d] = ballot[d]
          /\ attempts'[d] = attempts[d] /\ in_progress'[d] = in_progress[d]
      BY <1>1, <1>b, <2>2 DEF TypeInv, TypeOK
    <3> QED  BY <1>3, <2>2, <3>1 DEF TypeInv, CallOK
  <2> QED  BY <2>1, <2>2
<1> QED  BY <1>2, <1>4 DEF TypeInv

\* HandlePrepare, HandlePropose and HandleCommit leave the call where it is.
LEMMA HandlerCallOK ==
    ASSUME TypeInv, NEW c \in Cas, pc[c] \in Active, pc[c] # "read",
           UNCHANGED <<pc, mutation, attempts, ballot, clock>>,
           \E p : in_progress' = [in_progress EXCEPT ![c] = p]
    PROVE  CallOK'
BY DEF TypeInv, TypeOK, CallOK, BallotBound, Owns

\* The three handlers of a replica keep TypeInv.
LEMMA HandlerType ==
    ASSUME TypeInv, NEW c \in Cas, NEW r \in Replica,
           \/ HandlePrepare(c, r)
           \/ HandlePropose(c, r)
           \/ HandleCommit(c, r)
    PROVE  TypeInv'
<1>1. /\ states[r] \in PaxosStates /\ ballot[c] \in Nat
      /\ in_progress[c] \in Proposal \cup {NoProposal}
  BY DEF TypeInv, TypeOK
<1>2. CASE HandlePrepare(c, r)
  <2>1. /\ Prepare(states[r], ballot[c]) \in PaxosStates
        /\ Newest(in_progress[c], Reported(c, r)) \in Proposal \cup {NoProposal}
    BY <1>1, PrepareFacts DEF Newest, Reported, PaxosStates
  <2>2. TypeOK'
    BY <1>2, <2>1 DEF HandlePrepare, TypeInv, TypeOK
  <2>3. CallOK'
    BY <1>2, HandlerCallOK DEF HandlePrepare, Active
  <2> QED  BY <2>2, <2>3 DEF TypeInv
<1>3. CASE HandlePropose(c, r)
  <2>1. /\ ProposalOf(c) \in Proposal
        /\ Propose(states[r], ProposalOf(c)) \in PaxosStates
    BY <1>1, <1>3, ProposalOfType, ProposeFacts DEF HandlePropose, Active
  <2>2. TypeOK'
    <3>1. votes' \in [Replica -> SUBSET Proposal] /\ acks' \in [Cas -> SUBSET Replica]
      <4>1. CASE Accepts(states[r], ProposalOf(c))
        <5>1. /\ acks' = [acks EXCEPT ![c] = acks[c] \cup {r}]
              /\ votes' = [votes EXCEPT ![r] = votes[r] \cup {ProposalOf(c)}]
          BY <1>3, <4>1 DEF HandlePropose
        <5>2. /\ acks[c] \cup {r} \in SUBSET Replica
              /\ votes[r] \cup {ProposalOf(c)} \in SUBSET Proposal
          BY <2>1 DEF TypeInv, TypeOK
        <5> QED  BY <5>1, <5>2 DEF TypeInv, TypeOK
      <4>2. CASE ~Accepts(states[r], ProposalOf(c))
        BY <1>3, <4>2 DEF HandlePropose, TypeInv, TypeOK
      <4> QED  BY <4>1, <4>2
    <3>2. states' \in [Replica -> PaxosStates] /\ heard' \in [Cas -> SUBSET Replica]
      BY <1>3, <2>1 DEF HandlePropose, TypeInv, TypeOK
    <3> QED  BY <1>3, <3>1, <3>2 DEF HandlePropose, TypeInv, TypeOK
  <2>3. in_progress' = [in_progress EXCEPT ![c] = in_progress[c]]
    BY <1>3 DEF HandlePropose, TypeInv, TypeOK
  <2>4. CallOK'
    BY <1>3, <2>3, HandlerCallOK DEF HandlePropose, Active
  <2> QED  BY <2>2, <2>4 DEF TypeInv
<1>4. CASE HandleCommit(c, r)
  <2>1. /\ ProposalOf(c) \in Proposal
        /\ Commit(states[r], ProposalOf(c)) \in PaxosStates
    BY <1>1, <1>4, ProposalOfType, CommitFacts DEF HandleCommit, Active
  <2>2. TypeOK'
    BY <1>4, <2>1 DEF HandleCommit, TypeInv, TypeOK
  <2>3. in_progress' = [in_progress EXCEPT ![c] = in_progress[c]]
    BY <1>4 DEF HandleCommit, TypeInv, TypeOK
  <2>4. CallOK'
    BY <1>4, <2>3, HandlerCallOK DEF HandleCommit, Active
  <2> QED  BY <2>2, <2>4 DEF TypeInv
<1> QED  BY <1>2, <1>3, <1>4

\* Making a proposal keeps TypeInv.
LEMMA BeginProposeType ==
    ASSUME TypeInv, NEW c \in Cas, pc[c] \in Active, BeginPropose(c)
    PROVE  TypeInv'
<1>1. ProposalOf(c) \in Proposal
  BY ProposalOfType
<1>2. TypeOK'
  BY <1>1 DEF BeginPropose, Goto, TypeInv, TypeOK, Phases
<1>3. CallOK'
  BY DEF BeginPropose, Goto, TypeInv, TypeOK, CallOK, BallotBound, Owns, Active
<1> QED  BY <1>2, <1>3 DEF TypeInv

\* Calling execute_cas keeps TypeInv.
LEMMA InvokeType ==
    ASSUME TypeInv, NEW c \in Cas, Invoke(c, c)
    PROVE  TypeInv'
<1>1. TypeOK'
  BY MutationAssumption DEF Invoke, TypeInv, TypeOK, Phases
<1>2. CallOK'
  BY MutationAssumption DEF Invoke, TypeInv, TypeOK, CallOK, BallotBound, Owns, Active
<1> QED  BY <1>1, <1>2 DEF TypeInv

\* What a step of a call does, with the six actions that only move it on
\* put together.
Moves(c) ==
    \/ pc[c] = "loop" /\ MoveTo(c, "ContentionAborted")
    \/ pc[c] \in {"prepare", "propose"} /\ MoveTo(c, "loop")
    \/ PhaseOver(c, "prepare") /\ in_progress[c] = NoProposal /\ MoveTo(c, "read")
    \/ pc[c] = "read" /\ MoveTo(c, "ConditionNotMet")
    \/ PhaseOver(c, "propose") /\ HasQuorum(c) /\ MoveTo(c, "commit")
    \/ PhaseOver(c, "commit") /\ in_progress[c] # NoProposal /\ MoveTo(c, "loop")
    \/ PhaseOver(c, "commit") /\ in_progress[c] = NoProposal /\ MoveTo(c, "Success")

\* Every step of a call is one of five kinds.
LEMMA StepCases ==
    ASSUME NEW c \in Cas, Step(c)
    PROVE  \/ Invoke(c, c)
           \/ StartRound(c)
           \/ (PhaseOver(c, "prepare") \/ pc[c] = "read") /\ BeginPropose(c)
           \/ Moves(c)
           \/ \E r \in Replica :
                 HandlePrepare(c, r) \/ HandlePropose(c, r) \/ HandleCommit(c, r)
BY DEF Step, LocalStep, AbortContention, NoQuorum, AdoptInProgress, AwaitRead,
       ConditionMet, ConditionNotMet, AcceptedByQuorum, EndRound, AfterCommit,
       PhaseOver, Moves

\* The moves that only change the phase keep TypeInv.
LEMMA MovesType ==
    ASSUME TypeInv, NEW c \in Cas, Moves(c)
    PROVE  TypeInv'
<1>1. PICK ph \in (Phases \cup Results) \ {"idle"} :
          /\ MoveTo(c, ph)
          /\ pc[c] # "idle"
          /\ ph \in Active => pc[c] \in Active
          /\ ph = "read" => in_progress[c] = NoProposal
  BY SMT DEF Moves, PhaseOver, Phases, Results, Active
<1> QED  BY <1>1, MoveToType

\* TypeInv is inductive.
LEMMA TypeNext == TypeInv /\ [Next]_vars => TypeInv'
<1> SUFFICES ASSUME TypeInv, [Next]_vars PROVE TypeInv'
  OBVIOUS
<1>1. CASE UNCHANGED vars
  BY <1>1 DEF vars, TypeInv, TypeOK, CallOK, BallotBound, Owns
<1>2. ASSUME NEW c \in Cas, Step(c) PROVE TypeInv'
  <2>1. CASE Invoke(c, c)
    BY <2>1, InvokeType
  <2>2. CASE StartRound(c)
    BY <2>2, StartRoundType
  <2>3. CASE (PhaseOver(c, "prepare") \/ pc[c] = "read") /\ BeginPropose(c)
    BY <2>3, BeginProposeType DEF PhaseOver, Active
  <2>4. CASE Moves(c)
    BY <2>4, MovesType
  <2>5. CASE \E r \in Replica :
               HandlePrepare(c, r) \/ HandlePropose(c, r) \/ HandleCommit(c, r)
    BY <2>5, HandlerType
  <2> QED  BY <1>2, <2>1, <2>2, <2>3, <2>4, <2>5, StepCases
<1> QED  BY <1>1, <1>2 DEF Next

\* The types of all the variables: a replica's state, a call's ballot and what
\* it collects are always well formed.
THEOREM TypeCorrect == Spec => []TypeOK
<1>1. Init => TypeInv
  BY TypeInit
<1>2. TypeInv /\ [Next]_vars => TypeInv'
  BY TypeNext
<1>3. TypeInv => TypeOK
  BY DEF TypeInv
<1> QED  BY <1>1, <1>2, <1>3, PTL DEF Spec

-----------------------------------------------------------------------------
\* The rounds of execute_cas.  A call visits every replica in its prepare phase,
\* and every replica it has visited has promised its ballot or a higher one and
\* has told which proposal it holds.  Hence, when a proposal is made, no replica
\* will accept an older one any more, and each older accepted proposal either
\* carries the same mutation or is no longer in progress where it was accepted.
\* Ballots are unique because a ballot names its node and the rounds of a call
\* have growing ones.

\* SafeInv holds initially.
LEMMA SafeInit == Init => SafeInv
<1> SUFFICES ASSUME Init PROVE SafeInv
  OBVIOUS
<1>1. TypeInv
  BY TypeInit
<1>2. BallotsOK
  BY DEF Init, BallotsOK, UniqueBallots
<1>3. VotesOK
  BY DEF Init, VotesOK, PaxosStateNew
<1>4. PreparedOK
  BY DEF Init, PreparedOK, Visited
<1>5. PromisedOK /\ NoRivalProposal
  BY DEF Init, PromisedOK, NoRivalProposal
<1> QED  BY <1>1, <1>2, <1>3, <1>4, <1>5 DEF SafeInv

\* A call that begins has made no proposal.
LEMMA InvokeSafe ==
    ASSUME SafeInv, NEW c \in Cas, Invoke(c, c)
    PROVE  SafeInv'
<1> USE DEF SafeInv
<1>1. TypeInv'
  BY InvokeType
<1>2. /\ UNCHANGED <<states, attempts, ballot, heard, in_progress, votes, proposed>>
      /\ pc' = [pc EXCEPT ![c] = "loop"]
      /\ pc[c] = "idle"
      /\ \A d \in Cas : d # c => mutation'[d] = mutation[d] /\ pc'[d] = pc[d]
      /\ pc'[c] = "loop"
  BY DEF Invoke, TypeInv, TypeOK
<1>3. BallotsOK'
  <2>1. \A d \in Cas : \A b : Spent(d, b) => Spent(d, b)'
    BY <1>2 DEF Spent
  <2>2. \A p \in proposed' : \E d \in Cas : Owns(d, p.ballot)' /\ Spent(d, p.ballot)'
    BY <1>2, <2>1 DEF BallotsOK, Owns
  <2>3. \A d \in Cas : pc'[d] \in {"propose", "commit"} => ProposalOf(d)' \in proposed'
    BY <1>2 DEF BallotsOK, ProposalOf
  <2> QED  BY <1>2, <2>2, <2>3 DEF BallotsOK, UniqueBallots
<1>4. VotesOK' /\ PromisedOK' /\ NoRivalProposal'
  BY <1>2 DEF VotesOK, PromisedOK, NoRivalProposal
<1>5. PreparedOK'
  <2>1. \A d \in Cas, r \in Replica : Visited(d, r)' => Visited(d, r)
    BY <1>2 DEF Visited
  <2> QED  BY <1>2, <2>1 DEF PreparedOK
<1> QED  BY <1>1, <1>3, <1>4, <1>5

\* A new round has a higher ballot than the one before and has visited nobody.
LEMMA StartRoundSafe ==
    ASSUME SafeInv, NEW c \in Cas, StartRound(c)
    PROVE  SafeInv'
<1> USE DEF SafeInv
<1>1. TypeInv'
  BY StartRoundType
<1>2. /\ UNCHANGED <<states, mutation, votes, proposed>>
      /\ pc'[c] = "prepare" /\ heard'[c] = {} /\ in_progress'[c] = NoProposal
      /\ \A d \in Cas : d # c => /\ pc'[d] = pc[d]
                                /\ heard'[d] = heard[d]
                                /\ in_progress'[d] = in_progress[d]
                                /\ ballot'[d] = ballot[d]
  BY DEF StartRound, StartRoundWith, Goto, TypeInv, TypeOK
<1>3. ballot'[c] > ballot[c] /\ ballot'[c] \in Nat /\ ballot[c] \in Nat
  BY NewRoundBallot DEF TypeInv, TypeOK
<1>4. BallotsOK'
  <2>1. \A d \in Cas : \A b \in Nat : Spent(d, b) => Spent(d, b)'
    BY SMT, <1>2, <1>3 DEF Spent
  <2>2. \A p \in proposed : p.ballot \in Nat
    BY DEF TypeInv, TypeOK, Proposal
  <2>3. \A p \in proposed' : \E d \in Cas : Owns(d, p.ballot)' /\ Spent(d, p.ballot)'
    BY <1>2, <2>1, <2>2 DEF BallotsOK, Owns
  <2>4. \A d \in Cas : pc'[d] \in {"propose", "commit"} => ProposalOf(d)' \in proposed'
    BY <1>2 DEF BallotsOK, ProposalOf
  <2>5. \A d \in Cas : in_progress'[d] \in proposed' \cup {NoProposal}
    BY <1>2 DEF BallotsOK
  <2>6. UniqueBallots'
    BY <1>2 DEF BallotsOK, UniqueBallots
  <2> QED  BY <2>3, <2>4, <2>5, <2>6 DEF BallotsOK
<1>5. VotesOK' /\ PromisedOK' /\ NoRivalProposal'
  BY <1>2 DEF VotesOK, PromisedOK, NoRivalProposal
<1>6. PreparedOK'
  <2>1. \A d \in Cas, r \in Replica : Visited(d, r)' => d # c /\ Visited(d, r)
    BY <1>2 DEF Visited
  <2> QED  BY <1>2, <2>1 DEF PreparedOK
<1> QED  BY <1>1, <1>4, <1>5, <1>6

\* The moves that only change the phase keep SafeInv.
LEMMA MovesSafe ==
    ASSUME SafeInv, NEW c \in Cas, Moves(c)
    PROVE  SafeInv'
<1> USE DEF SafeInv
<1>1. TypeInv'
  BY MovesType
<1>2. /\ UNCHANGED <<states, mutation, ballot, in_progress, votes, proposed>>
      /\ heard'[c] = {}
      /\ \A d \in Cas : d # c => pc'[d] = pc[d] /\ heard'[d] = heard[d]
  BY DEF Moves, MoveTo, Goto, TypeInv, TypeOK
<1>3. /\ pc'[c] = "read" => PhaseOver(c, "prepare")
      /\ pc'[c] # "prepare"
      /\ pc'[c] \in {"propose", "commit"} => pc[c] = "propose"
  <2>1. \A ph : MoveTo(c, ph) => pc'[c] = ph
    BY DEF MoveTo, Goto, TypeInv, TypeOK
  <2> QED  BY <2>1 DEF Moves, PhaseOver
<1>4. BallotsOK'
  <2>1. \A d \in Cas : \A b : Spent(d, b) => Spent(d, b)'
    BY <1>2, <1>3 DEF Spent, PhaseOver
  <2>2. \A p \in proposed' : \E d \in Cas : Owns(d, p.ballot)' /\ Spent(d, p.ballot)'
    BY <1>2, <2>1 DEF BallotsOK, Owns
  <2>3. \A d \in Cas : pc'[d] \in {"propose", "commit"} => ProposalOf(d)' \in proposed'
    BY <1>2, <1>3 DEF BallotsOK, ProposalOf
  <2> QED  BY <1>2, <2>2, <2>3 DEF BallotsOK, UniqueBallots
<1>5. VotesOK' /\ PromisedOK' /\ NoRivalProposal'
  BY <1>2 DEF VotesOK, PromisedOK, NoRivalProposal
<1>6. PreparedOK'
  <2>1. \A d \in Cas, r \in Replica : Visited(d, r)' => Visited(d, r)
    BY <1>2, <1>3 DEF Visited, PhaseOver
  <2> QED  BY <1>2, <2>1 DEF PreparedOK
<1> QED  BY <1>1, <1>4, <1>5, <1>6

\* The heart of the argument: when c makes its proposal, every replica has
\* promised its ballot, and what replicas accepted before and have not
\* committed carries the mutation it proposes.
LEMMA BeginProposeSafe ==
    ASSUME OneCasPerNode, SafeInv, NEW c \in Cas,
           PhaseOver(c, "prepare") \/ pc[c] = "read", BeginPropose(c)
    PROVE  SafeInv'
<1> USE DEF SafeInv
<1> DEFINE q == ProposalOf(c)
<1>1. TypeInv'
  BY BeginProposeType DEF PhaseOver, Active
<1>2. /\ UNCHANGED <<states, mutation, ballot, in_progress, votes>>
      /\ proposed' = proposed \cup {q}
      /\ pc'[c] = "propose" /\ heard'[c] = {}
      /\ \A d \in Cas : d # c => pc'[d] = pc[d] /\ heard'[d] = heard[d]
  BY DEF BeginPropose, Goto, TypeInv, TypeOK
<1>3. /\ q \in Proposal /\ q.ballot = ballot[c] /\ ballot[c] \in Nat \ {0}
      /\ Owns(c, q.ballot)
      /\ pc[c] \in {"prepare", "read"}
  BY SMT, ProposalOfType DEF PhaseOver, Active, TypeInv, TypeOK, CallOK
<1>4. \A r \in Replica : Visited(c, r)
  BY DEF Visited, PhaseOver
<1>5. in_progress[c] # NoProposal => q.mutation = in_progress[c].mutation
  BY DEF ProposalOf
<1>a. /\ \A p \in proposed : p.ballot \in Nat \ {0}
      /\ \A r \in Replica : /\ states[r].committed.ballot \in Nat
                            /\ states[r].promised \in Nat
      /\ in_progress[c].ballot \in Nat
  BY SMT DEF TypeInv, TypeOK, PaxosStates, Proposal, NoProposal, BallotNone
<1> HIDE DEF q
<1>6. \A p \in proposed : p.ballot # q.ballot
  <2> SUFFICES ASSUME NEW p \in proposed, p.ballot = q.ballot PROVE FALSE
    OBVIOUS
  <2>1. PICK d \in Cas : Owns(d, p.ballot) /\ Spent(d, p.ballot)
    BY DEF BallotsOK
  <2>2. d = c
    BY <1>3, <2>1, OwnerIsUnique
  <2> QED  BY SMT, <1>3, <1>a, <2>1, <2>2 DEF Spent
<1>7. BallotsOK'
  <2>1. \A d \in Cas : \A b : Spent(d, b) => Spent(d, b)'
    BY <1>2 DEF Spent
  <2>2. \A b : b = q.ballot => Spent(c, b)'
    BY <1>2, <1>3 DEF Spent
  <2>3. ASSUME NEW p \in proposed'
        PROVE  \E d \in Cas : Owns(d, p.ballot) /\ Spent(d, p.ballot)'
    BY <1>2, <1>3, <2>1, <2>2 DEF BallotsOK
  <2>4. \A d \in Cas : pc'[d] \in {"propose", "commit"} => ProposalOf(d)' \in proposed'
    BY <1>2 DEF BallotsOK, ProposalOf, q
  <2>5. UniqueBallots'
    BY <1>2, <1>6 DEF BallotsOK, UniqueBallots
  <2> QED  BY <1>2, <2>3, <2>4, <2>5 DEF BallotsOK
<1>8. VotesOK'
  BY <1>2 DEF VotesOK
<1>9. PreparedOK'
  <2>1. \A d \in Cas, r \in Replica : Visited(d, r)' => Visited(d, r)
    BY <1>2 DEF Visited
  <2> QED  BY <1>2, <2>1 DEF PreparedOK
<1>10. PromisedOK'
  BY <1>2, <1>3, <1>4 DEF PromisedOK, PreparedOK
<1>11. NoRivalProposal'
  <2> SUFFICES ASSUME NEW r \in Replica, NEW p \in votes[r],
                      p.ballot < q.ballot, p.mutation # q.mutation
               PROVE  states[r].committed.ballot >= p.ballot
    BY <1>2 DEF NoRivalProposal
  <2>1. \/ p.ballot <= in_progress[c].ballot
        \/ p.ballot <= states[r].committed.ballot
    BY <1>3, <1>4 DEF PreparedOK
  <2>2. p \in proposed
    BY DEF VotesOK
  <2>3. CASE p.ballot <= in_progress[c].ballot
    <3>1. in_progress[c] # NoProposal /\ in_progress[c] \in proposed
      BY SMT, <1>a, <2>2, <2>3 DEF BallotsOK, NoProposal, BallotNone
    <3>2. p.mutation # in_progress[c].mutation
      BY <1>5, <3>1
    <3>3. p.ballot # in_progress[c].ballot
      BY <2>2, <3>1, <3>2 DEF BallotsOK, UniqueBallots
    <3> QED  BY SMT, <1>a, <2>2, <2>3, <3>1, <3>2, <3>3 DEF NoRivalProposal
  <2> QED  BY <1>a, <2>1, <2>2, <2>3
<1> QED  BY <1>1, <1>7, <1>8, <1>9, <1>10, <1>11

\* The handlers change one replica and leave the calls' positions alone.
LEMMA HandlerBallots ==
    ASSUME SafeInv, UNCHANGED <<pc, mutation, ballot, proposed>>,
           NEW c \in Cas, pc[c] = "prepare" \/ UNCHANGED in_progress,
           \E p \in proposed \cup {NoProposal} :
               in_progress' = [in_progress EXCEPT ![c] = p]
    PROVE  BallotsOK'
<1> USE DEF SafeInv
<1>1. \A d \in Cas : \A b : Spent(d, b) => Spent(d, b)'
  BY DEF Spent
<1>2. \A p \in proposed' : \E d \in Cas : Owns(d, p.ballot)' /\ Spent(d, p.ballot)'
  BY <1>1 DEF BallotsOK, Owns
<1>3. \A d \in Cas : pc[d] \in {"propose", "commit"} => in_progress'[d] = in_progress[d]
  BY DEF TypeInv, TypeOK
<1>4. \A d \in Cas : pc'[d] \in {"propose", "commit"} => ProposalOf(d)' \in proposed'
  BY <1>3 DEF BallotsOK, ProposalOf
<1>5. \A d \in Cas : in_progress'[d] \in proposed' \cup {NoProposal}
  BY DEF BallotsOK, TypeInv, TypeOK
<1> QED  BY <1>2, <1>4, <1>5 DEF BallotsOK, UniqueBallots

-----------------------------------------------------------------------------
\* The handlers of the replicas.

\* A prepared replica has promised the ballot, and what it accepted below it is
\* reported to the call or committed there.
LEMMA HandlePrepareSafe ==
    ASSUME SafeInv, NEW c \in Cas, NEW r \in Replica, HandlePrepare(c, r)
    PROVE  SafeInv'
<1> USE DEF SafeInv
<1> DEFINE s == states[r]
           n == Prepare(s, ballot[c])
           ip == Newest(in_progress[c], s.accepted)
<1>1. TypeInv'
  BY HandlerType
<1>2. /\ pc[c] = "prepare"
      /\ states' = [states EXCEPT ![r] = n]
      /\ heard' = [heard EXCEPT ![c] = heard[c] \cup {r}]
      /\ in_progress' = [in_progress EXCEPT ![c] = ip]
      /\ UNCHANGED <<pc, mutation, attempts, ballot, clock, votes, proposed>>
  BY DEF HandlePrepare, Reported
<1>3. /\ n.promised >= ballot[c] /\ n.promised >= s.promised
      /\ n.accepted = s.accepted /\ n.committed = s.committed
      /\ n.promised \in Nat /\ s.promised \in Nat /\ s.committed.ballot \in Nat
      /\ s.accepted \in Proposal \cup {NoProposal}
  <2>1. s \in PaxosStates /\ ballot[c] \in Nat
    BY DEF TypeInv, TypeOK
  <2>2. /\ s.promised \in Nat /\ s.committed.ballot \in Nat
        /\ s.accepted \in Proposal \cup {NoProposal}
    BY SMT, <2>1 DEF PaxosStates, Proposal, NoProposal, BallotNone
  <2> HIDE DEF s
  <2>3. /\ n \in PaxosStates
        /\ n.promised >= ballot[c] /\ n.promised >= s.promised
        /\ n.accepted = s.accepted /\ n.committed = s.committed
    BY <2>1, PrepareFacts
  <2>4. n.promised \in Nat
    BY <2>3 DEF PaxosStates
  <2> QED  BY <2>2, <2>3, <2>4
<1>4. /\ ip \in proposed \cup {NoProposal}
      /\ ip.ballot \in Nat /\ in_progress[c].ballot \in Nat /\ s.accepted.ballot \in Nat
      /\ ip.ballot >= in_progress[c].ballot
      /\ ip.ballot >= s.accepted.ballot
  <2>1. in_progress[c] \in proposed \cup {NoProposal} /\ s.accepted \in proposed \cup {NoProposal}
    BY DEF BallotsOK, VotesOK
  <2>2. in_progress[c].ballot \in Nat /\ s.accepted.ballot \in Nat
    BY SMT DEF TypeInv, TypeOK, PaxosStates, Proposal, NoProposal, BallotNone
  <2>3. s.accepted = NoProposal => s.accepted.ballot = 0
    BY SMT DEF NoProposal, BallotNone
  <2> QED  BY SMT, <2>1, <2>2, <2>3 DEF Newest
<1> HIDE DEF n, ip
<1>b. /\ states'[r] = n
      /\ \A t \in Replica : t # r => states'[t] = states[t]
      /\ in_progress'[c] = ip
      /\ heard'[c] = heard[c] \cup {r}
      /\ \A d \in Cas : d # c => in_progress'[d] = in_progress[d] /\ heard'[d] = heard[d]
  BY <1>2 DEF TypeInv, TypeOK
<1>5. BallotsOK'
  BY <1>2, <1>4, HandlerBallots
<1>6. VotesOK'
  <2> SUFFICES ASSUME NEW t \in Replica
               PROVE  /\ votes[t] \subseteq proposed
                      /\ states'[t].accepted \in votes[t] \cup {NoProposal}
                      /\ states'[t].committed \in proposed \cup {NoProposal}
                      /\ \A p \in votes[t] :
                            /\ p.ballot <= states'[t].promised
                            /\ \/ p.ballot <= states'[t].accepted.ballot
                               \/ p.ballot <= states'[t].committed.ballot
    BY <1>2 DEF VotesOK
  <2>1. \A p \in votes[r] : p.ballot \in Nat
    BY SMT DEF TypeInv, TypeOK, Proposal
  <2>2. CASE t = r
    BY SMT, <1>3, <1>b, <2>1, <2>2 DEF VotesOK
  <2>3. CASE t # r
    BY <1>b, <2>3 DEF VotesOK
  <2> QED  BY <2>2, <2>3
<1>7. PreparedOK'
  <2> SUFFICES ASSUME NEW d \in Cas, NEW t \in Replica, Visited(d, t)'
               PROVE  /\ states'[t].promised >= ballot[d]
                      /\ \A p \in votes[t] : p.ballot < ballot[d] =>
                            \/ p.ballot <= in_progress'[d].ballot
                            \/ p.ballot <= states'[t].committed.ballot
    BY <1>2 DEF PreparedOK
  <2>0. /\ ballot[d] \in Nat
        /\ \A p \in votes[t] : p.ballot \in Nat
    BY SMT DEF TypeInv, TypeOK, Proposal
  <2>1. CASE Visited(d, t)
    BY SMT, <1>3, <1>4, <1>b, <2>0, <2>1 DEF PreparedOK
  <2>2. CASE ~Visited(d, t)
    <3>1. d = c /\ t = r
      BY <1>2, <1>b, <2>2 DEF Visited
    <3> QED  BY SMT, <1>3, <1>4, <1>b, <2>0, <3>1 DEF VotesOK
  <2> QED  BY <2>1, <2>2
<1>8. PromisedOK' /\ NoRivalProposal'
  <2>1. \A t \in Replica : /\ states'[t].promised >= states[t].promised
                          /\ states'[t].committed = states[t].committed
                          /\ states'[t].promised \in Nat /\ states[t].promised \in Nat
    <3>1. \A t \in Replica : states[t].promised \in Nat
      BY DEF TypeInv, TypeOK, PaxosStates
    <3> QED  BY SMT, <1>3, <1>b, <3>1
  <2>2. \A p \in proposed : p.ballot \in Nat
    BY DEF TypeInv, TypeOK, Proposal
  <2> QED  BY SMT, <1>2, <2>1, <2>2 DEF PromisedOK, NoRivalProposal
<1> QED  BY <1>1, <1>5, <1>6, <1>7, <1>8

\* A vote is cast only at a replica whose promise the ballot reaches, that is
\* above everything proposed so far.
LEMMA HandleProposeSafe ==
    ASSUME SafeInv, NEW c \in Cas, NEW r \in Replica, HandlePropose(c, r)
    PROVE  SafeInv'
<1> USE DEF SafeInv
<1> DEFINE q == ProposalOf(c)
           s == states[r]
<1>1. TypeInv'
  BY HandlerType
<1>2. /\ pc[c] = "propose"
      /\ states' = [states EXCEPT ![r] = Propose(s, q)]
      /\ heard' = [heard EXCEPT ![c] = heard[c] \cup {r}]
      /\ Accepts(s, q) => votes' = [votes EXCEPT ![r] = votes[r] \cup {q}]
      /\ ~Accepts(s, q) => votes' = votes
      /\ UNCHANGED <<pc, mutation, ballot, in_progress, proposed>>
  BY DEF HandlePropose
<1>3. q \in proposed /\ q \in Proposal /\ q.ballot \in Nat
  BY <1>2 DEF BallotsOK, TypeInv, TypeOK, Proposal
<1>4. s \in PaxosStates /\ s.promised \in Nat /\ s.committed.ballot \in Nat
  BY SMT DEF TypeInv, TypeOK, PaxosStates, Proposal, NoProposal, BallotNone
<1>5. \A p \in proposed : p.ballot \in Nat
  BY DEF TypeInv, TypeOK, Proposal
<1> HIDE DEF q
<1>6. /\ states'[r] = Propose(s, q)
      /\ \A t \in Replica : t # r => states'[t] = states[t] /\ votes'[t] = votes[t]
      /\ Accepts(s, q) => votes'[r] = votes[r] \cup {q}
      /\ ~Accepts(s, q) => votes'[r] = votes[r]
      /\ \A d \in Cas, t \in Replica : Visited(d, t)' => Visited(d, t)
  BY <1>2 DEF TypeInv, TypeOK, Visited
<1>7. BallotsOK'
  <2>1. in_progress' = [in_progress EXCEPT ![c] = in_progress[c]]
    BY <1>2 DEF TypeInv, TypeOK
  <2> QED  BY <1>2, <2>1, HandlerBallots DEF BallotsOK
<1>8. CASE ~Accepts(s, q)
  <2>1. states' = states /\ votes' = votes
    BY SMT, <1>2, <1>3, <1>4, <1>8, ProposeFacts DEF TypeInv, TypeOK
  <2>2. VotesOK' /\ PreparedOK' /\ PromisedOK' /\ NoRivalProposal'
    BY <1>2, <1>6, <2>1 DEF VotesOK, PreparedOK, PromisedOK, NoRivalProposal
  <2> QED  BY <1>1, <1>7, <2>2
<1>9. CASE Accepts(s, q)
  <2>1. /\ states'[r].promised = q.ballot /\ states'[r].accepted = q
        /\ states'[r].committed = s.committed
        /\ q.ballot >= s.promised
    BY SMT, <1>3, <1>4, <1>6, <1>9, ProposeFacts
  <2>2. \A p \in proposed : p.ballot <= q.ballot
    BY SMT, <1>3, <1>4, <1>5, <2>1 DEF PromisedOK
  <2>3. votes'[r] = votes[r] \cup {q} /\ votes[r] \subseteq proposed
    BY <1>6, <1>9 DEF VotesOK
  <2>4. VotesOK'
    <3> SUFFICES ASSUME NEW t \in Replica
                 PROVE  /\ votes'[t] \subseteq proposed
                        /\ states'[t].accepted \in votes'[t] \cup {NoProposal}
                        /\ states'[t].committed \in proposed \cup {NoProposal}
                        /\ \A p \in votes'[t] :
                              /\ p.ballot <= states'[t].promised
                              /\ \/ p.ballot <= states'[t].accepted.ballot
                                 \/ p.ballot <= states'[t].committed.ballot
      BY <1>2 DEF VotesOK
    <3>1. CASE t = r
      BY <1>3, <1>5, <2>1, <2>2, <2>3, <3>1 DEF VotesOK
    <3>2. CASE t # r
      BY <1>6, <3>2 DEF VotesOK
    <3> QED  BY <3>1, <3>2
  <2>5. PreparedOK'
    <3> SUFFICES ASSUME NEW d \in Cas, NEW t \in Replica, Visited(d, t)
                 PROVE  /\ states'[t].promised >= ballot[d]
                        /\ \A p \in votes'[t] : p.ballot < ballot[d] =>
                              \/ p.ballot <= in_progress[d].ballot
                              \/ p.ballot <= states'[t].committed.ballot
      BY <1>2, <1>6 DEF PreparedOK
    <3>0. ballot[d] \in Nat
      BY DEF TypeInv, TypeOK
    <3>1. CASE t = r
      BY SMT, <1>3, <1>4, <1>5, <2>1, <2>3, <3>0, <3>1 DEF PreparedOK
    <3>2. CASE t # r
      BY <1>6, <3>2 DEF PreparedOK
    <3> QED  BY <3>1, <3>2
  <2>6. PromisedOK'
    <3> SUFFICES ASSUME NEW p \in proposed, NEW t \in Replica
                 PROVE  states'[t].promised >= p.ballot
      BY <1>2 DEF PromisedOK
    <3> QED  BY <1>3, <1>5, <1>6, <2>1, <2>2 DEF PromisedOK
  <2>7. NoRivalProposal'
    <3> SUFFICES ASSUME NEW t \in Replica, NEW p \in votes'[t], NEW o \in proposed,
                        p.ballot < o.ballot, p.mutation # o.mutation
                 PROVE  states'[t].committed.ballot >= p.ballot
      BY <1>2 DEF NoRivalProposal
    <3>1. CASE t = r
      BY SMT, <1>3, <1>5, <2>1, <2>2, <2>3, <3>1 DEF NoRivalProposal
    <3>2. CASE t # r
      BY <1>6, <3>2 DEF NoRivalProposal
    <3> QED  BY <3>1, <3>2
  <2> QED  BY <1>1, <1>7, <2>4, <2>5, <2>6, <2>7
<1> QED  BY <1>8, <1>9

\* A commit only raises what a replica has committed, and what it makes the
\* replica forget is covered by it.
LEMMA HandleCommitSafe ==
    ASSUME SafeInv, NEW c \in Cas, NEW r \in Replica, HandleCommit(c, r)
    PROVE  SafeInv'
<1> USE DEF SafeInv
<1> DEFINE q == ProposalOf(c)
           s == states[r]
<1>1. TypeInv'
  BY HandlerType
<1>2. /\ pc[c] = "commit"
      /\ states' = [states EXCEPT ![r] = Commit(s, q)]
      /\ heard' = [heard EXCEPT ![c] = heard[c] \cup {r}]
      /\ UNCHANGED <<pc, mutation, ballot, in_progress, votes, proposed>>
  BY DEF HandleCommit
<1>3. q \in proposed /\ q \in Proposal
  BY <1>2 DEF BallotsOK, TypeInv, TypeOK
<1>4. /\ s \in PaxosStates /\ s.committed.ballot \in Nat /\ s.accepted.ballot \in Nat
      /\ \A p \in proposed : p.ballot \in Nat
  BY SMT DEF TypeInv, TypeOK, PaxosStates, Proposal, NoProposal, BallotNone
<1> HIDE DEF q
<1>6. /\ states'[r] = Commit(s, q)
      /\ \A t \in Replica : t # r => states'[t] = states[t]
      /\ \A d \in Cas, t \in Replica : Visited(d, t)' => Visited(d, t)
  BY <1>2 DEF TypeInv, TypeOK, Visited
<1>7. BallotsOK'
  <2>1. in_progress' = [in_progress EXCEPT ![c] = in_progress[c]]
    BY <1>2 DEF TypeInv, TypeOK
  <2> QED  BY <1>2, <2>1, HandlerBallots DEF BallotsOK
<1>8. /\ states'[r].promised = s.promised
      /\ states'[r].committed \in {q, s.committed}
      /\ states'[r].committed.ballot >= s.committed.ballot
      /\ \/ states'[r].accepted = s.accepted
         \/ states'[r].accepted = NoProposal /\ s.accepted.ballot <= states'[r].committed.ballot
  BY SMT, <1>3, <1>4, <1>6, CommitFacts
<1>9. states'[r].committed.ballot \in Nat
  BY <1>3, <1>4, <1>8
<1>10. VotesOK'
  <2> SUFFICES ASSUME NEW t \in Replica
               PROVE  /\ votes[t] \subseteq proposed
                      /\ states'[t].accepted \in votes[t] \cup {NoProposal}
                      /\ states'[t].committed \in proposed \cup {NoProposal}
                      /\ \A p \in votes[t] :
                            /\ p.ballot <= states'[t].promised
                            /\ \/ p.ballot <= states'[t].accepted.ballot
                               \/ p.ballot <= states'[t].committed.ballot
    BY <1>2 DEF VotesOK
  <2>1. CASE t = r
    BY SMT, <1>3, <1>4, <1>8, <1>9, <2>1 DEF VotesOK
  <2>2. CASE t # r
    BY <1>6, <2>2 DEF VotesOK
  <2> QED  BY <2>1, <2>2
<1>11. \A t \in Replica : /\ states'[t].promised = states[t].promised
                         /\ states[t].committed.ballot \in Nat
                         /\ states'[t].committed.ballot \in Nat
                         /\ states'[t].committed.ballot >= states[t].committed.ballot
  <2>1. \A t \in Replica : states[t].committed.ballot \in Nat
    BY SMT DEF TypeInv, TypeOK, PaxosStates, Proposal, NoProposal, BallotNone
  <2> QED  BY SMT, <1>6, <1>8, <1>9, <2>1
<1>12. PreparedOK' /\ PromisedOK' /\ NoRivalProposal'
  <2>1. \A t \in Replica : votes[t] \subseteq proposed
    BY DEF VotesOK
  <2>2. PreparedOK'
    <3> SUFFICES ASSUME NEW d \in Cas, NEW t \in Replica, Visited(d, t)
                 PROVE  /\ states'[t].promised >= ballot[d]
                        /\ \A p \in votes[t] : p.ballot < ballot[d] =>
                              \/ p.ballot <= in_progress[d].ballot
                              \/ p.ballot <= states'[t].committed.ballot
      BY <1>2, <1>6 DEF PreparedOK
    <3>1. /\ states[t].promised >= ballot[d]
          /\ \A p \in votes[t] : p.ballot < ballot[d] =>
                \/ p.ballot <= in_progress[d].ballot
                \/ p.ballot <= states[t].committed.ballot
      BY DEF PreparedOK
    <3>2. /\ states'[t].promised = states[t].promised
          /\ states[t].committed.ballot \in Nat /\ states'[t].committed.ballot \in Nat
          /\ states'[t].committed.ballot >= states[t].committed.ballot
      BY <1>11
    <3> HIDE DEF SafeInv
    <3>3. ASSUME NEW p \in votes[t], p.ballot < ballot[d]
          PROVE  \/ p.ballot <= in_progress[d].ballot
                 \/ p.ballot <= states'[t].committed.ballot
      <4>1. p.ballot \in Nat
        BY <1>4, <2>1
      <4>2. CASE p.ballot <= in_progress[d].ballot
        BY <4>2
      <4>3. CASE p.ballot <= states[t].committed.ballot
        BY SMT, <3>2, <4>1, <4>3
      <4> QED  BY <3>1, <3>3, <4>2, <4>3
    <3> QED  BY <3>1, <3>2, <3>3
  <2>3. PromisedOK'
    BY <1>2, <1>11 DEF PromisedOK
  <2>4. NoRivalProposal'
    <3> SUFFICES ASSUME NEW t \in Replica, NEW p \in votes[t], NEW o \in proposed,
                        p.ballot < o.ballot, p.mutation # o.mutation
                 PROVE  states'[t].committed.ballot >= p.ballot
      BY <1>2 DEF NoRivalProposal
    <3>1. states[t].committed.ballot >= p.ballot
      BY DEF NoRivalProposal
    <3> HIDE DEF SafeInv
    <3> QED  BY SMT, <1>4, <1>11, <2>1, <3>1
  <2> QED  BY <2>2, <2>3, <2>4
<1> QED  BY <1>1, <1>7, <1>10, <1>12

\* SafeInv is inductive when no node runs two calls.
LEMMA SafeNext ==
    ASSUME OneCasPerNode, SafeInv, [Next]_vars
    PROVE  SafeInv'
<1>1. CASE UNCHANGED vars
  <2>1. TypeInv'
    BY <1>1 DEF vars, SafeInv, TypeInv, TypeOK, CallOK, BallotBound, Owns
  <2>2. BallotsOK'
    BY <1>1 DEF vars, SafeInv, BallotsOK, Spent, Owns, ProposalOf, UniqueBallots
  <2>3. VotesOK' /\ PromisedOK' /\ NoRivalProposal'
    BY <1>1 DEF vars, SafeInv, VotesOK, PromisedOK, NoRivalProposal
  <2>4. PreparedOK'
    BY <1>1 DEF vars, SafeInv, PreparedOK, Visited
  <2> QED  BY <2>1, <2>2, <2>3, <2>4 DEF SafeInv
<1>2. ASSUME NEW c \in Cas, Step(c) PROVE SafeInv'
  <2>1. CASE Invoke(c, c)
    BY <2>1, InvokeSafe
  <2>2. CASE StartRound(c)
    BY <2>2, StartRoundSafe
  <2>3. CASE (PhaseOver(c, "prepare") \/ pc[c] = "read") /\ BeginPropose(c)
    BY <2>3, BeginProposeSafe
  <2>4. CASE Moves(c)
    BY <2>4, MovesSafe
  <2>5. CASE \E r \in Replica :
               HandlePrepare(c, r) \/ HandlePropose(c, r) \/ HandleCommit(c, r)
    BY <2>5, HandlePrepareSafe, HandleProposeSafe, HandleCommitSafe
  <2> QED  BY <1>2, <2>1, <2>2, <2>3, <2>4, <2>5, StepCases
<1> QED  BY <1>1, <1>2 DEF Next

\* SafeInv holds of every behaviour with calls of different nodes.
LEMMA SafeAlways == OneCasPerNode => (Spec => []SafeInv)
<1>1. OneCasPerNode /\ SafeInv /\ [Next]_vars => SafeInv'
  BY SafeNext
<1> SUFFICES ASSUME OneCasPerNode PROVE Spec => []SafeInv
  OBVIOUS
<1>2. SafeInv /\ [Next]_vars => SafeInv'
  BY <1>1
<1> QED  BY <1>2, SafeInit, PTL DEF Spec

\* Paxos safety of execute_cas for every number of replicas, calls, retries and
\* any quorum_size, for calls of different coordinator nodes: an
\* accepted mutation is overtaken by another one only where it is committed.
THEOREM NoRival ==
    ASSUME OneCasPerNode
    PROVE  Spec => []NoRivalProposal
<1>1. SafeInv => NoRivalProposal
  BY DEF SafeInv
<1>2. Spec => []SafeInv
  BY SafeAlways
<1> QED  BY <1>1, <1>2, PTL

\* Ballot::new and the bumped retries of calls of different nodes never repeat a
\* ballot.
THEOREM BallotsAreUnique ==
    ASSUME OneCasPerNode
    PROVE  Spec => []UniqueBallots
<1>1. SafeInv => UniqueBallots
  BY DEF SafeInv, BallotsOK
<1>2. Spec => []SafeInv
  BY SafeAlways
<1> QED  BY <1>1, <1>2, PTL

\* A call that reads the row, or has read it, is promised its ballot everywhere.
LEMMA PastPreparePromised ==
    ASSUME SafeInv, NEW c \in Cas, PastPrepare(c), NEW r \in Replica
    PROVE  states[r].promised >= ballot[c]
<1> USE DEF SafeInv
<1>1. CASE pc[c] = "read"
  BY <1>1 DEF PreparedOK, Visited
<1>2. CASE pc[c] \in {"propose", "commit"}
  <2>1. ProposalOf(c) \in proposed /\ ProposalOf(c).ballot = ballot[c]
    BY <1>2 DEF BallotsOK, ProposalOf
  <2> QED  BY <2>1 DEF PromisedOK
<1> QED  BY <1>1, <1>2 DEF PastPrepare

\* The read inside a CAS is stable: from its quorum of promises to its commit no
\* replica accepts a proposal with a lower ballot.
THEOREM ReadIsStable ==
    ASSUME OneCasPerNode
    PROVE  Spec => NoVoteBehindARead
<1> DEFINE A == \A r \in Replica, c \in Cas :
                  PastPrepare(c) => \A p \in votes'[r] \ votes[r] : p.ballot >= ballot[c]
<1>1. SafeInv /\ [Next]_vars => [A]_vars
  <2> SUFFICES ASSUME SafeInv, Next, NEW r \in Replica, NEW c \in Cas, PastPrepare(c),
                      NEW p \in votes'[r] \ votes[r]
               PROVE  p.ballot >= ballot[c]
    OBVIOUS
  <2>1. PICK d \in Cas : Step(d)
    BY DEF Next, vars
  <2>2. PICK t \in Replica : HandlePropose(d, t)
    BY <2>1 DEF Step, LocalStep, Invoke, StartRound, StartRoundWith, AbortContention, NoQuorum,
         AdoptInProgress, AwaitRead, ConditionMet, BeginPropose, AcceptedByQuorum, EndRound,
         ConditionNotMet, HandlePrepare, HandleCommit, MoveTo
  <2>3. votes \in [Replica -> SUBSET Proposal]
    BY DEF SafeInv, TypeInv, TypeOK
  <2>4. t = r /\ Accepts(states[r], ProposalOf(d)) /\ p = ProposalOf(d)
    BY <2>2, <2>3 DEF HandlePropose
  <2>5. states[r].promised \in Nat /\ ballot[c] \in Nat /\ ballot[d] \in Nat
    BY DEF SafeInv, TypeInv, TypeOK, PaxosStates
  <2>6. p.ballot = ballot[d] /\ p.ballot >= states[r].promised
    BY <2>4 DEF Accepts, ProposalOf
  <2> QED  BY SMT, <2>5, <2>6, PastPreparePromised
<1>2. Spec => []SafeInv
  BY SafeAlways
<1> QED  BY <1>1, <1>2, PTL DEF Spec, NoVoteBehindARead

-----------------------------------------------------------------------------
\* What a commit means: DoneInv, and the theorems about BallotOrder,
\* CommittedIsChosen and SuccessIsDurable.
\*
\* The argument.  A commit is sent for a proposal that quorum_size replicas have
\* accepted, and votes are never withdrawn.  It replaces an older commit only, so what
\* a call has committed on a replica stays or is covered.  While a call proposes,
\* nobody can have committed under its ballot, so what a replica accepts is newer than
\* its commit.

\* DoneInv holds initially.
LEMMA DoneInit == Init => DoneInv
<1> SUFFICES ASSUME Init PROVE DoneInv
  OBVIOUS
<1>1. OrderOK
  BY DEF Init, OrderOK, PaxosStateNew
<1>2. ChosenOK
  BY DEF Init, ChosenOK, PaxosStateNew
<1>3. DurableOK
  BY DEF Init, DurableOK, SuccessIsDurable
<1> QED  BY <1>1, <1>2, <1>3 DEF DoneInv

\* Steps that change no replica: only the call that moves has to be looked at.
LEMMA LocalDone ==
    ASSUME SafeInv, DoneInv, NEW c \in Cas,
           UNCHANGED <<states, votes>>,
           \A d \in Cas : d # c => /\ pc'[d] = pc[d] /\ heard'[d] = heard[d]
                                  /\ acks'[d] = acks[d] /\ ballot'[d] = ballot[d]
                                  /\ in_progress'[d] = in_progress[d]
                                  /\ mutation'[d] = mutation[d],
           pc'[c] = "propose" =>
               acks'[c] = {} /\ \A r \in Replica : states[r].committed.ballot # ballot'[c],
           pc'[c] = "commit" => heard'[c] = {} /\ Chosen(ProposalOf(c)'),
           pc'[c] = "Success" => /\ in_progress'[c] = NoProposal
                                 /\ \A r \in Replica : Covered(r, ProposalOf(c)')
    PROVE  DoneInv'
<1> USE DEF DoneInv
<1>1. \A d \in Cas : d # c => ProposalOf(d)' = ProposalOf(d)
  BY DEF ProposalOf
<1>2. \A p : /\ Voters(p)' = Voters(p)
             /\ Chosen(p)' <=> Chosen(p)
             /\ \A r \in Replica : Covered(r, p)' <=> Covered(r, p)
  BY DEF Voters, Chosen, Covered
<1>3. OrderOK'
  BY SMT DEF OrderOK
<1>4. ChosenOK'
  <2>1. \A d \in Cas : pc'[d] = "propose" => acks'[d] \subseteq Voters(ProposalOf(d))'
    BY SMT, <1>1 DEF ChosenOK, Voters
  <2>2. \A d \in Cas : pc'[d] = "commit" => Chosen(ProposalOf(d))'
    BY SMT, <1>1 DEF ChosenOK, Chosen, Voters
  <2>3. \A r \in Replica : states'[r].committed # NoProposal => Chosen(states[r].committed)'
    BY DEF ChosenOK, Chosen, Voters
  <2> QED  BY <2>1, <2>2, <2>3 DEF ChosenOK
<1>5. DurableOK'
  <2>1. \A d \in Cas : pc'[d] = "commit" => \A r \in heard'[d] : Covered(r, ProposalOf(d))'
    BY SMT, <1>1 DEF DurableOK, Covered
  <2>2. \A d \in Cas : pc'[d] = "Success" => in_progress'[d] = NoProposal
    BY DEF DurableOK
  <2>3. SuccessIsDurable'
    <3> SUFFICES ASSUME NEW d \in Cas, pc'[d] = "Success", NEW r \in Replica
                 PROVE  \/ states[r].committed = [ballot |-> ballot'[d], mutation |-> mutation'[d]]
                        \/ states[r].committed.ballot > ballot'[d]
      BY DEF SuccessIsDurable
    <3>1. CASE d = c
      BY <3>1 DEF Covered, ProposalOf
    <3>2. CASE d # c
      BY <3>2 DEF DurableOK, SuccessIsDurable
    <3> QED  BY <3>1, <3>2
  <2> QED  BY <2>1, <2>2, <2>3 DEF DurableOK
<1> QED  BY <1>3, <1>4, <1>5

\* What a replica has committed it has promised, so a proposal it still accepts
\* is not older than its commit.
LEMMA CommittedPromised ==
    ASSUME SafeInv, NEW r \in Replica
    PROVE  states[r].promised >= states[r].committed.ballot
<1>1. states[r].committed \in proposed \cup {NoProposal} /\ states[r].promised \in Nat
  BY DEF SafeInv, VotesOK, TypeInv, TypeOK, PaxosStates
<1> QED  BY SMT, <1>1 DEF SafeInv, PromisedOK, NoProposal, BallotNone

\* A prepare touches neither commits nor votes.
LEMMA HandlePrepareDone ==
    ASSUME SafeInv, DoneInv, NEW c \in Cas, NEW r \in Replica, HandlePrepare(c, r)
    PROVE  DoneInv'
<1> USE DEF SafeInv, DoneInv
<1> DEFINE n == Prepare(states[r], ballot[c])
<1>1. /\ pc[c] = "prepare"
      /\ states' = [states EXCEPT ![r] = n]
      /\ UNCHANGED <<pc, mutation, ballot, votes>>
  BY DEF HandlePrepare
<1>2. n.accepted = states[r].accepted /\ n.committed = states[r].committed
  BY PrepareFacts DEF TypeInv, TypeOK
<1> HIDE DEF n
<1>3. \A t \in Replica : /\ states'[t].accepted = states[t].accepted
                        /\ states'[t].committed = states[t].committed
  BY <1>1, <1>2 DEF TypeInv, TypeOK
<1>4. \A d \in Cas : d # c => /\ heard'[d] = heard[d] /\ acks'[d] = acks[d]
                            /\ in_progress'[d] = in_progress[d]
                            /\ ProposalOf(d)' = ProposalOf(d)
  BY <1>1 DEF HandlePrepare, ProposalOf, TypeInv, TypeOK
<1>5. OrderOK'
  BY <1>1, <1>3 DEF OrderOK
<1>6. ChosenOK'
  BY <1>1, <1>3, <1>4 DEF ChosenOK, Chosen, Voters
<1>7. DurableOK'
  <2>1. \A d \in Cas : pc'[d] = "commit" => \A t \in heard'[d] : Covered(t, ProposalOf(d))'
    <3> SUFFICES ASSUME NEW d \in Cas, pc[d] = "commit", NEW t \in heard[d]
                 PROVE  Covered(t, ProposalOf(d))'
      BY <1>1, <1>4
    <3>1. d # c /\ t \in Replica
      BY <1>1 DEF TypeInv, TypeOK
    <3> QED  BY SMT, <1>3, <1>4, <3>1 DEF DurableOK, Covered
  <2>2. \A d \in Cas : pc'[d] = "Success" => in_progress'[d] = NoProposal
    BY <1>1, <1>4 DEF DurableOK
  <2>3. SuccessIsDurable'
    BY <1>1, <1>3 DEF DurableOK, SuccessIsDurable
  <2> QED  BY <2>1, <2>2, <2>3 DEF DurableOK
<1> QED  BY <1>5, <1>6, <1>7

\* A vote adds to the voters; the proposal is newer than the replica's commit.
\* That more voters are enough voters is ChosenStays of the second part.
LEMMA HandleProposeDone ==
    ASSUME SafeInv, DoneInv, NEW c \in Cas, NEW r \in Replica, HandlePropose(c, r),
           (\A t \in Replica : votes[t] \subseteq votes'[t]) => \A p : Chosen(p) => Chosen(p)'
    PROVE  DoneInv'
<1> USE DEF SafeInv, DoneInv
<1> DEFINE q == ProposalOf(c)
           s == states[r]
<1>1. /\ pc[c] = "propose"
      /\ states' = [states EXCEPT ![r] = Propose(s, q)]
      /\ heard' = [heard EXCEPT ![c] = heard[c] \cup {r}]
      /\ Accepts(s, q) => /\ votes' = [votes EXCEPT ![r] = votes[r] \cup {q}]
                          /\ acks' = [acks EXCEPT ![c] = acks[c] \cup {r}]
      /\ ~Accepts(s, q) => UNCHANGED <<votes, acks>>
      /\ UNCHANGED <<pc, mutation, ballot, in_progress>>
  BY DEF HandlePropose
<1>2. /\ q \in Proposal /\ q.ballot \in Nat /\ q.ballot = ballot[c]
      /\ s \in PaxosStates /\ s.promised \in Nat /\ s.committed.ballot \in Nat
  BY SMT, <1>1 DEF BallotsOK, TypeInv, TypeOK, ProposalOf, PaxosStates, Proposal, NoProposal, BallotNone
<1>3. \A d \in Cas : ProposalOf(d)' = ProposalOf(d)
  BY <1>1 DEF ProposalOf
<1> HIDE DEF q
<1>4. /\ states'[r] = Propose(s, q)
      /\ \A t \in Replica : t # r => states'[t] = states[t]
      /\ \A t \in Replica : votes[t] \subseteq votes'[t]
      /\ \A d \in Cas : d # c => heard'[d] = heard[d] /\ acks'[d] = acks[d]
      /\ \/ acks'[c] = acks[c]
         \/ acks'[c] = acks[c] \cup {r} /\ q \in votes'[r]
  <2>1. /\ states \in [Replica -> PaxosStates] /\ votes \in [Replica -> SUBSET Proposal]
        /\ heard \in [Cas -> SUBSET Replica] /\ acks \in [Cas -> SUBSET Replica]
    BY DEF TypeInv, TypeOK
  <2>2. CASE Accepts(s, q)
    BY SMT, <1>1, <2>1, <2>2
  <2>3. CASE ~Accepts(s, q)
    BY <1>1, <2>1, <2>3
  <2> QED  BY <2>2, <2>3
<1>5. \A t \in Replica : states'[t].committed = states[t].committed
  BY SMT, <1>2, <1>4, ProposeFacts
<1>6. OrderOK'
  <2>1. \/ states'[r] = s
        \/ states'[r].accepted = q /\ q.ballot >= s.promised
    BY SMT, <1>2, <1>4, ProposeFacts
  <2>2. s.promised >= s.committed.ballot
    BY CommittedPromised
  <2>3. s.committed.ballot # q.ballot
    BY <1>1, <1>2 DEF OrderOK
  <2>4. \A t \in Replica : states'[t].accepted # NoProposal
            => states'[t].accepted.ballot > states'[t].committed.ballot
    BY SMT, <1>2, <1>4, <1>5, <2>1, <2>2, <2>3 DEF OrderOK
  <2>5. \A t \in Replica, d \in Cas : pc'[d] = "propose" => states'[t].committed.ballot # ballot'[d]
    BY <1>1, <1>5 DEF OrderOK
  <2> QED  BY <2>4, <2>5 DEF OrderOK
<1>7. ChosenOK'
  <2>1. \A p : Voters(p) \subseteq Voters(p)' /\ (Chosen(p) => Chosen(p)')
    BY <1>4 DEF Voters
  <2>2. ASSUME NEW d \in Cas, pc[d] = "propose"
        PROVE  acks'[d] \subseteq Voters(ProposalOf(d))'
    <3>1. acks[d] \subseteq Voters(ProposalOf(d))'
      BY <1>3, <2>1, <2>2 DEF ChosenOK, Voters
    <3>2. CASE d = c
      <4>1. q \in votes'[r] => r \in Voters(ProposalOf(c))'
        BY <1>3 DEF Voters, q
      <4> QED  BY <1>4, <3>1, <3>2, <4>1
    <3> QED  BY <1>4, <3>1, <3>2
  <2>3. ASSUME NEW d \in Cas, pc[d] = "commit" PROVE Chosen(ProposalOf(d))'
    BY <1>3, <2>1, <2>3 DEF ChosenOK, Chosen, Voters
  <2>4. ASSUME NEW t \in Replica, states'[t].committed # NoProposal
        PROVE  Chosen(states[t].committed)'
    BY <1>5, <2>1, <2>4 DEF ChosenOK, Chosen, Voters
  <2> QED  BY <1>1, <2>2, <2>3, <2>4 DEF ChosenOK
<1>8. DurableOK'
  <2>1. ASSUME NEW d \in Cas, pc[d] = "commit", NEW t \in heard'[d]
        PROVE  Covered(t, ProposalOf(d))'
    <3>1. d # c /\ t \in heard[d] /\ t \in Replica
      BY <1>1, <1>4, <2>1 DEF TypeInv, TypeOK
    <3> QED  BY <1>3, <1>5, <2>1, <3>1 DEF DurableOK, Covered
  <2>2. SuccessIsDurable'
    BY <1>1, <1>5 DEF DurableOK, SuccessIsDurable
  <2> QED  BY <1>1, <2>1, <2>2 DEF DurableOK
<1> QED  BY <1>6, <1>7, <1>8

\* A commit replaces a commit only by a newer one, and it is of a proposal that
\* is chosen and that no call is still proposing.
LEMMA HandleCommitDone ==
    ASSUME OneCasPerNode, SafeInv, DoneInv, NEW c \in Cas, NEW r \in Replica,
           HandleCommit(c, r)
    PROVE  DoneInv'
<1> USE DEF SafeInv, DoneInv
<1> DEFINE q == ProposalOf(c)
           s == states[r]
<1>1. /\ pc[c] = "commit"
      /\ states' = [states EXCEPT ![r] = Commit(s, q)]
      /\ heard' = [heard EXCEPT ![c] = heard[c] \cup {r}]
      /\ UNCHANGED <<pc, mutation, ballot, in_progress, votes, acks>>
  BY DEF HandleCommit
<1>2. /\ q \in proposed /\ q \in Proposal /\ q.ballot \in Nat \ {0} /\ q.ballot = ballot[c]
      /\ s \in PaxosStates /\ s.committed.ballot \in Nat
  BY SMT, <1>1 DEF BallotsOK, TypeInv, TypeOK, ProposalOf, PaxosStates, Proposal, NoProposal, BallotNone
<1>3. /\ \A d \in Cas : ProposalOf(d)' = ProposalOf(d)
      /\ \A p : (Chosen(p)' <=> Chosen(p)) /\ Voters(p)' = Voters(p)
  BY <1>1 DEF ProposalOf, Chosen, Voters
<1>4. Chosen(q)
  BY <1>1 DEF ChosenOK
<1> HIDE DEF q
<1>5. /\ states'[r] = Commit(s, q)
      /\ \A t \in Replica : t # r => states'[t] = states[t]
      /\ heard'[c] = heard[c] \cup {r}
      /\ \A d \in Cas : d # c => heard'[d] = heard[d]
  BY <1>1 DEF TypeInv, TypeOK
<1>6. /\ states'[r].committed \in {q, s.committed}
      /\ states'[r].committed.ballot >= q.ballot
      /\ states'[r].committed = s.committed \/ states'[r].committed.ballot > s.committed.ballot
      /\ \/ states'[r].accepted = s.accepted /\ s.accepted.ballot > states'[r].committed.ballot
         \/ states'[r].accepted = NoProposal
  BY SMT, <1>2, <1>5, CommitFacts
<1>7. OrderOK'
  <2>1. \A t \in Replica : states'[t].accepted # NoProposal
            => states'[t].accepted.ballot > states'[t].committed.ballot
    BY <1>5, <1>6 DEF OrderOK
  <2>2. ASSUME NEW t \in Replica, NEW d \in Cas, pc[d] = "propose"
        PROVE  states'[t].committed.ballot # ballot[d]
    <3>1. Owns(c, ballot[c]) /\ Owns(d, ballot[d]) /\ d # c
      BY <1>1, <2>2 DEF TypeInv, CallOK, Active
    <3>2. ballot[c] # ballot[d]
      BY <3>1, OwnerIsUnique
    <3> QED  BY SMT, <1>2, <1>5, <1>6, <2>2, <3>2 DEF OrderOK
  <2> QED  BY <1>1, <2>1, <2>2 DEF OrderOK
<1>8. ChosenOK'
  <2>1. ASSUME NEW d \in Cas, pc[d] = "propose" PROVE acks'[d] \subseteq Voters(ProposalOf(d))'
    BY SMT, <1>1, <1>3, <2>1 DEF ChosenOK, Voters
  <2>2. ASSUME NEW d \in Cas, pc[d] = "commit" PROVE Chosen(ProposalOf(d))'
    BY SMT, <1>1, <1>3, <2>2 DEF ChosenOK, Voters, Chosen
  <2>3. ASSUME NEW t \in Replica, states'[t].committed # NoProposal
        PROVE  Chosen(states[t].committed)'
    <3>1. Chosen(states'[t].committed)
      BY <1>4, <1>5, <1>6, <2>3 DEF ChosenOK
    <3> QED  BY <1>1, <3>1 DEF Chosen, Voters
  <2> QED  BY <1>1, <2>1, <2>2, <2>3 DEF ChosenOK
<1>9. \A t \in Replica, p \in proposed : Covered(t, p) => Covered(t, p)'
  <2> SUFFICES ASSUME NEW t \in Replica, NEW p \in proposed, Covered(t, p) PROVE Covered(t, p)'
    OBVIOUS
  <2>1. p.ballot \in Nat /\ states'[r].committed.ballot \in Nat
    BY <1>2, <1>6 DEF TypeInv, TypeOK, Proposal
  <2> HIDE DEF SafeInv, DoneInv
  <2>2. CASE t = r
    BY SMT, <1>2, <1>6, <2>1, <2>2 DEF Covered
  <2>3. CASE t # r
    BY <1>5, <2>3 DEF Covered
  <2> QED  BY <2>2, <2>3
<1>10. DurableOK'
  <2>1. ASSUME NEW d \in Cas, pc[d] = "commit", NEW t \in heard'[d]
        PROVE  Covered(t, ProposalOf(d))'
    <3>1. ProposalOf(d) \in proposed
      BY <2>1 DEF BallotsOK
    <3>2. CASE t \in heard[d]
      <4>1. t \in Replica /\ Covered(t, ProposalOf(d))
        BY <2>1, <3>2 DEF DurableOK, TypeInv, TypeOK
      <4>2. PICK p \in proposed : p = ProposalOf(d)
        BY <3>1
      <4>3. Covered(t, p)'
        BY <1>9, <4>1, <4>2
      <4> QED  BY <1>3, <4>2, <4>3 DEF Covered
    <3>3. CASE t \notin heard[d]
      <4>1. d = c /\ t = r
        BY <1>5, <2>1, <3>3
      <4>2. s.committed.ballot = q.ballot => s.committed = q
        BY SMT, <1>2 DEF BallotsOK, UniqueBallots, VotesOK, NoProposal, BallotNone
      <4>3. states'[r].committed = q \/ states'[r].committed.ballot > q.ballot
        BY SMT, <1>2, <1>6, <4>2
      <4> QED  BY <1>3, <4>1, <4>3 DEF Covered, q
    <3> QED  BY <3>2, <3>3
  <2>2. SuccessIsDurable'
    <3> SUFFICES ASSUME NEW d \in Cas, pc[d] = "Success", NEW t \in Replica
                 PROVE  \/ states'[t].committed = [ballot |-> ballot[d], mutation |-> mutation[d]]
                        \/ states'[t].committed.ballot > ballot[d]
      BY <1>1 DEF SuccessIsDurable
    <3>1. \/ states[t].committed = [ballot |-> ballot[d], mutation |-> mutation[d]]
          \/ states[t].committed.ballot > ballot[d]
      BY DEF DurableOK, SuccessIsDurable
    <3>2. ballot[d] \in Nat /\ states'[r].committed.ballot \in Nat
      BY <1>2, <1>6 DEF TypeInv, TypeOK
    <3> HIDE DEF SafeInv, DoneInv
    <3> QED  BY SMT, <1>2, <1>5, <1>6, <3>1, <3>2
  <2> QED  BY <1>1, <2>1, <2>2 DEF DurableOK
<1> QED  BY <1>7, <1>8, <1>10

-----------------------------------------------------------------------------
\* The steps in which a call touches no replica, and the theorems.

\* Voters only grow, so a chosen proposal stays chosen.
LEMMA ChosenStays ==
    ASSUME \A r \in Replica : votes[r] \subseteq votes'[r], NEW p, Chosen(p)
    PROVE  Chosen(p)'
<1>1. Voters(p) \subseteq Voters(p)' /\ Voters(p)' \subseteq Replica
  BY DEF Voters
<1>2. IsFiniteSet(Voters(p)')
  BY <1>1, ReplicaAssumption, FS_Subset
<1>3. IsFiniteSet(Voters(p)) /\ Cardinality(Voters(p)) <= Cardinality(Voters(p)')
  BY <1>1, <1>2, FS_Subset
<1>4. Cardinality(Voters(p)) \in Nat /\ Cardinality(Voters(p)') \in Nat
  BY <1>2, <1>3, FS_CardinalityType
<1> QED  BY SMT, <1>3, <1>4, QuorumAssumption DEF Chosen

\* The steps of a call that change no replica keep DoneInv.
LEMMA LocalStepsDone ==
    ASSUME OneCasPerNode, SafeInv, DoneInv, NEW c \in Cas,
           \/ Invoke(c, c) \/ StartRound(c) \/ Moves(c)
           \/ (PhaseOver(c, "prepare") \/ pc[c] = "read") /\ BeginPropose(c)
    PROVE  DoneInv'
<1> USE DEF SafeInv, DoneInv
<1>1. CASE Invoke(c, c)
  <2>1. pc'[c] = "loop" /\ \A d \in Cas : d # c => pc'[d] = pc[d] /\ mutation'[d] = mutation[d]
    BY <1>1 DEF Invoke, TypeInv, TypeOK
  <2>2. UNCHANGED <<states, votes, ballot, heard, acks, in_progress>>
    BY <1>1 DEF Invoke
  <2> HIDE DEF SafeInv, DoneInv
  <2> QED  BY <2>1, <2>2, LocalDone
<1>2. CASE StartRound(c)
  <2>1. /\ pc'[c] = "prepare"
        /\ \A d \in Cas : d # c => /\ pc'[d] = pc[d] /\ heard'[d] = heard[d]
                                  /\ acks'[d] = acks[d] /\ ballot'[d] = ballot[d]
                                  /\ in_progress'[d] = in_progress[d]
    BY <1>2 DEF StartRound, StartRoundWith, Goto, TypeInv, TypeOK
  <2>2. UNCHANGED <<states, votes, mutation>>
    BY <1>2 DEF StartRound, StartRoundWith
  <2> HIDE DEF SafeInv, DoneInv
  <2> QED  BY <2>1, <2>2, LocalDone
<1>3. CASE (PhaseOver(c, "prepare") \/ pc[c] = "read") /\ BeginPropose(c)
  <2>1. /\ pc'[c] = "propose" /\ acks'[c] = {}
        /\ \A d \in Cas : d # c => /\ pc'[d] = pc[d] /\ heard'[d] = heard[d]
                                  /\ acks'[d] = acks[d]
    BY <1>3 DEF BeginPropose, Goto, TypeInv, TypeOK
  <2>2. UNCHANGED <<states, votes, mutation, ballot, in_progress>>
    BY <1>3 DEF BeginPropose
  <2>3. \A r \in Replica : states[r].committed.ballot # ballot[c]
    <3> SUFFICES ASSUME NEW r \in Replica, states[r].committed.ballot = ballot[c] PROVE FALSE
      OBVIOUS
    <3>1. ballot[c] \in Nat \ {0} /\ Owns(c, ballot[c]) /\ pc[c] \in {"prepare", "read"}
      BY SMT, <1>3 DEF PhaseOver, Active, TypeInv, TypeOK, CallOK
    <3>2. states[r].committed \in proposed
      BY SMT, <3>1 DEF VotesOK, NoProposal, BallotNone
    <3>3. PICK d \in Cas : Owns(d, ballot[c]) /\ Spent(d, ballot[c])
      BY <3>2 DEF BallotsOK
    <3>4. d = c
      BY <3>1, <3>3, OwnerIsUnique
    <3> QED  BY SMT, <3>1, <3>3, <3>4 DEF Spent
  <2> HIDE DEF SafeInv, DoneInv
  <2> QED  BY <2>1, <2>2, <2>3, LocalDone
<1>4. CASE Moves(c)
  <2>1. /\ UNCHANGED <<states, mutation, ballot, in_progress, votes>>
        /\ heard'[c] = {}
        /\ \A d \in Cas : d # c => /\ pc'[d] = pc[d] /\ heard'[d] = heard[d]
                                  /\ acks'[d] = acks[d]
    BY <1>4 DEF Moves, MoveTo, Goto, TypeInv, TypeOK
  <2>2. \A ph : MoveTo(c, ph) => pc'[c] = ph
    BY DEF MoveTo, Goto, TypeInv, TypeOK
  <2>3. /\ pc'[c] # "propose"
        /\ pc'[c] = "commit" => pc[c] = "propose" /\ HasQuorum(c)
        /\ pc'[c] = "Success" => PhaseOver(c, "commit") /\ in_progress[c] = NoProposal
    BY <1>4, <2>2 DEF Moves, PhaseOver
  <2>4. ProposalOf(c)' = ProposalOf(c)
    BY <2>1 DEF ProposalOf
  <2>5. ASSUME pc'[c] = "commit" PROVE Chosen(ProposalOf(c))
    <3>1. acks[c] \subseteq Voters(ProposalOf(c)) /\ HasQuorum(c)
      BY <2>3, <2>5 DEF ChosenOK
    <3>2. IsFiniteSet(Voters(ProposalOf(c)))
      <4>1. Voters(ProposalOf(c)) \subseteq Replica
        BY DEF Voters
      <4> QED  BY <4>1, ReplicaAssumption, FS_Subset
    <3>3. /\ IsFiniteSet(acks[c])
          /\ Cardinality(acks[c]) <= Cardinality(Voters(ProposalOf(c)))
      BY <3>1, <3>2, FS_Subset
    <3>4. Cardinality(acks[c]) \in Nat /\ Cardinality(Voters(ProposalOf(c))) \in Nat
      BY <3>2, <3>3, FS_CardinalityType
    <3> QED  BY SMT, <3>1, <3>3, <3>4, QuorumAssumption DEF HasQuorum, Chosen
  <2>6. pc'[c] = "Success" => \A r \in Replica : Covered(r, ProposalOf(c))
    BY <2>3 DEF DurableOK, PhaseOver
  <2> HIDE DEF SafeInv, DoneInv
  <2> QED  BY <2>1, <2>3, <2>4, <2>5, <2>6, LocalDone
<1> QED  BY <1>1, <1>2, <1>3, <1>4

\* DoneInv is inductive relative to SafeInv.
LEMMA DoneNext ==
    ASSUME OneCasPerNode, SafeInv, DoneInv, [Next]_vars
    PROVE  DoneInv'
<1>1. CASE UNCHANGED vars
  BY <1>1 DEF vars, DoneInv, OrderOK, ChosenOK, DurableOK, Covered, Chosen, Voters,
       ProposalOf, SuccessIsDurable
<1>2. ASSUME NEW c \in Cas, Step(c) PROVE DoneInv'
  <2>1. (\A t \in Replica : votes[t] \subseteq votes'[t]) => \A p : Chosen(p) => Chosen(p)'
    BY ChosenStays
  <2>2. ASSUME NEW r \in Replica, HandlePropose(c, r) PROVE DoneInv'
    BY <2>1, <2>2, HandleProposeDone
  <2> QED  BY <1>2, <2>2, StepCases, LocalStepsDone, HandlePrepareDone, HandleCommitDone
<1> QED  BY <1>1, <1>2 DEF Next

\* Both invariants hold of every behaviour with calls of different nodes.
LEMMA DoneAlways == OneCasPerNode => (Spec => [](SafeInv /\ DoneInv))
<1> SUFFICES ASSUME OneCasPerNode PROVE Spec => [](SafeInv /\ DoneInv)
  OBVIOUS
<1>1. Init => SafeInv /\ DoneInv
  BY SafeInit, DoneInit
<1>2. (SafeInv /\ DoneInv) /\ [Next]_vars => (SafeInv /\ DoneInv)'
  BY SafeNext, DoneNext
<1> QED  BY <1>1, <1>2, PTL DEF Spec

\* "promised >= accepted >= committed" (state.rs:29) in every reachable state,
\* and an accepted proposal is always strictly newer than the commit.
THEOREM BallotsAreOrdered ==
    ASSUME OneCasPerNode
    PROVE  Spec => []BallotOrder
<1>1. SafeInv /\ DoneInv => BallotOrder
  <2> SUFFICES ASSUME SafeInv, DoneInv, NEW r \in Replica
               PROVE  /\ states[r].promised >= states[r].accepted.ballot
                      /\ states[r].promised >= states[r].committed.ballot
                      /\ states[r].accepted # NoProposal
                            => states[r].accepted.ballot > states[r].committed.ballot
    BY DEF BallotOrder
  <2>1. /\ states[r].accepted \in votes[r] \cup {NoProposal} /\ states[r].promised \in Nat
        /\ votes[r] \subseteq Proposal
    BY DEF SafeInv, VotesOK, TypeInv, TypeOK, PaxosStates
  <2>2. states[r].promised >= states[r].accepted.ballot
    BY SMT, <2>1 DEF SafeInv, VotesOK, NoProposal, BallotNone, Proposal
  <2> QED  BY <2>2, CommittedPromised DEF DoneInv, OrderOK
<1>2. Spec => [](SafeInv /\ DoneInv)
  BY DoneAlways
<1> QED  BY <1>1, <1>2, PTL

\* A call that returns Success has its mutation committed on every replica, or
\* covered there by a later commit.
THEOREM SuccessIsForEver ==
    ASSUME OneCasPerNode
    PROVE  Spec => []SuccessIsDurable
<1>1. SafeInv /\ DoneInv => SuccessIsDurable
  BY DEF DoneInv, DurableOK
<1>2. Spec => [](SafeInv /\ DoneInv)
  BY DoneAlways
<1> QED  BY <1>1, <1>2, PTL

\* A replica commits only what quorum_size replicas have accepted.
THEOREM CommitsAreChosen ==
    ASSUME OneCasPerNode
    PROVE  Spec => []CommittedIsChosen
<1>1. SafeInv /\ DoneInv => CommittedIsChosen
  BY DEF DoneInv, ChosenOK, CommittedIsChosen, Chosen, Voters
<1>2. Spec => [](SafeInv /\ DoneInv)
  BY DoneAlways
<1> QED  BY <1>1, <1>2, PTL
=============================================================================
