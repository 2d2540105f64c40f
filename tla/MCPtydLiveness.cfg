CONSTANTS
    s1 = s1
    s2 = s2
    NoSid = NoSid
    Sids <- OneSid
    MaxConn = 1
    RingCaps = {1}
    RingMax = 1
    TotalCap = 1
    ReadMax = 1
    DrainReads = 1
    MaxOut = 1
    MaxInput = 0
    InputMax = 0
    HeaderMetas = 1
    FrameMetas = 1
    MetaSizes = {0}
    KillGrace = 1
    ShutdownGrace = 1
    Orphan = 1
    ExitedTtl = 1
    Idle = 1
    Stimuli = {"spawn", "kill", "term", "die", "vanish", "time"}
SPECIFICATION FairSpec
PROPERTIES KillEnds MastersAlwaysRead AbandonedPtydExits TermStops
