CONSTANTS
    r1 = r1
    r2 = r2
    c1 = c1
    c2 = c2
    c3 = c3
    Replica = {r1, r2}
    Cas = {c1, c2}
    Mutation = {c1, c2}
    NoMutation = NoMutation
    Repair = {}
    Ranks = 6
    TruncatedRank <- LowBytes
    quorum_size = 2
    max_contention_retries = 1
    NodeRank <- NodeOf
    Position <- Orders
    MaxClock = 2
    MaxRestarts = 1
    MaxRestarted = 1
    MaxFailures = 0

SPECIFICATION RecoverySpec

CHECK_DEADLOCK FALSE

PROPERTY PromiseIsKept
