CONSTANTS
    N = 2
    Kinds <- TwoLive
    Old = {}
    Aged = {}
    MAX_QUEUED = 2
    SEEN_CAP = 3
    MaxFaults = 0
SPECIFICATION Spec
CHECK_DEADLOCK FALSE
INVARIANTS NeverTwice
