SPECIFICATION Spec
CONSTANTS
    c1 = c1
    c2 = c2
    m1 = m1
    m2 = m2
    m3 = m3
    t1 = t1
    t2 = t2
    None = None
    Cf = {c1, c2}
    Mutation = {m1, m2, m3}
    CfOf <- TwoAndOne
    Rowless = {}
    Erases <- Delete
    Expired = {}
    Thread = {t1, t2}
    MaxMemtable = 4
    Scenarios <- Concurrent
INVARIANT AckedIsDurable
CHECK_DEADLOCK FALSE
