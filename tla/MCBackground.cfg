SPECIFICATION MCSpec
CONSTANTS
    Batch = {"b1", "b2"}
    Size = 2
    Replayer = {"r1", "r2"}
    Background = "r1"
    RateLimit = 1
    MaxCrashes = 1
    MaxErrors = 1
    PersistFails = FALSE
    Writer = {"w1"}
    Deliverer = {"periodic"}
    MaxHints = 2
    MaxPerEndpoint = 1
    MaxTotal = 1
    Width = 8
    Participant = {"p1", "p2", "p3"}
    LateCompletion = FALSE
    Session = {"s1", "s2"}
    Transfer = {"t1", "t2"}
    Outgoing <- OneSent
    Incoming <- OneRequested
    Chunks <- TwoChunks
    MaxRetries = 1
INVARIANTS TypesOK AllOrLogged Agreement WholeSSTables
PROPERTIES EventuallyComplete  ImplementsCommit StreamsSettle
CHECK_DEADLOCK FALSE
