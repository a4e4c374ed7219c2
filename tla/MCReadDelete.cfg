SPECIFICATION ReadSpec
CONSTANTS
    Replica <- Four
    DcOf <- ThreeAndOne
    LocalDc = "dc1"
    Local = "r1"
    Requests <- QuorumWrite
    HintsAlwaysFit = TRUE
    Reader = {"c1"}
    Reads <- QuorumRead
    Kinds = {"tombstone"}
    Before <- OldEverywhere
INVARIANT ReadsTheWrite
