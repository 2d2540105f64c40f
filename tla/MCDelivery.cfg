SPECIFICATION FairSpec
CONSTANTS
    N = 2
    NChecked = 1
    Lanes = {"a"}
    LaneOf <- OneLane
    Kinds <- TwoKinds
    MaxRetries = 1
    MaxCrashes = 2
    MaxFaults = 1
    MaxTrouble = 2
INVARIANTS
    TypeOK
    TypedOnce
    InSentOrder
    NoticeOnlyWhenCut
PROPERTIES
    Settled
CHECK_DEADLOCK FALSE
