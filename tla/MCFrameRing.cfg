CONSTANTS
    Slots = 2
    Words <- TwoWords
    READ_TRIES = 2
    MAX_FRAME_NO = 9
    MAX_SEQ = 16
    MaxPushes = 3
    MaxAttaches = 3
SPECIFICATION FairSpec
CHECK_DEADLOCK FALSE
INVARIANTS TypeOK NeverTorn PublishedWhole ProbeSteady
PROPERTIES NumbersGrow NewestReached
