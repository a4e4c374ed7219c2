SPECIFICATION MCFairSpec
CONSTANTS
    Node = {"n1", "n2", "n3"}
    Seeds = {"n1"}
    App = {"Status", "TcmEpoch"}
    Status = "Status"
    Wire = {"Status"}
    Clusters <- AllClusters
    MinToken = 0
    MaxToken = 4
    Topologies <- AllTopologies
INVARIANTS
    
    LocksAreDisjoint
    OneOwner
    
PROPERTIES
    
    QuarantinedLeavesLive
    Discovery
