SPECIFICATION Spec
CONSTANTS
    t1 = t1
    t2 = t2
    t3 = t3
    k1 = k1
    Txn = {t1, t2, t3}
    KeysOf <- Same
    Returning = {}
    Journaling = TRUE
    MaxClock = 3
    DistinctIds = TRUE
INVARIANTS ExecutesAfterAgreed JournalIsComplete
 
SYMMETRY Symmetry
