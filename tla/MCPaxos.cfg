CONSTANTS
    r1 = r1
    r2 = r2
    r3 = r3
    c1 = c1
    c2 = c2
    Replica = {r1, r2, r3}
    Cas = {c1, c2}
    Mutation = {c1, c2}
    NoMutation = NoMutation
    Ranks = 2
    quorum_size = 2
    max_contention_retries = 2
    NodeRank <- TwoNodes
    Position <- TwoOrders
    MaxClock = 2

SPECIFICATION FairSpec

INVARIANT BallotOrder
INVARIANT NoRivalProposal
INVARIANT CommittedIsChosen
INVARIANT SuccessIsDurable
PROPERTY NoVoteBehindARead
PROPERTY Termination
