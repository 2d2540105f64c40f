CONSTANTS
    N = 3
    Kinds <- MixedKinds
    Old = {1, 2}
    Aged = {1}
    MAX_QUEUED = 2
    SEEN_CAP = 1
    MaxFaults = 2
SPECIFICATION FairSpec
CHECK_DEADLOCK FALSE
INVARIANTS TypeOK DrivenOnce NothingVanishes
PROPERTIES InOrder QueueEmpties
