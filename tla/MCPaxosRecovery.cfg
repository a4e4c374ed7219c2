CONSTANTS
    r1 = r1
    r2 = r2
    c1 = c1
    c2 = c2
    c3 = c3
    Replica = {r1, r2}
    Cas = {c1, c3}
    Mutation = {c1, c3}
    NoMutation = NoMutation
    Repair = {c3}
    Ranks = 6
    TruncatedRank <- LowBytes
    quorum_size = 2
    max_contention_retries = 2
    NodeRank <- NodeOf
    Position <- Orders
    MaxClock = 2
    MaxRestarts = 1
    MaxRestarted = 1
    MaxFailures = 1

SPECIFICATION RecoverySpec

CHECK_DEADLOCK FALSE

INVARIANT AcceptedIsStored
INVARIANT SuccessIsStored
