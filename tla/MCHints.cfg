SPECIFICATION Spec
CONSTANTS
    Writer = {"w1", "w2"}
    Deliverer = {"periodic", "recovered"}
    MaxHints = 3
    MaxPerEndpoint = 2
    MaxTotal = 3
    Width = 8
    Scenarios <- Safety
INVARIANTS NothingLost OldestFirst TotalIsCount QueueIsBounded
CHECK_DEADLOCK FALSE
