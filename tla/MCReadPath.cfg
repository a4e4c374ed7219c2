SPECIFICATION ReadFairSpec
CONSTANTS
    Replica <- Four
    DcOf <- ThreeAndOne
    LocalDc = "dc1"
    Local = "r1"
    Requests <- Sound
    HintsAlwaysFit = TRUE
    Reader = {"c1"}
    Reads <- Overlapping
    Kinds = {"value", "empty"}
    Before <- OldSomewhere
INVARIANTS OkIsKept FailureIsFinal NobodyForgotten ReadsTheWrite 
PROPERTY Returns
