CONSTANTS
    s1 = s1
    s2 = s2
    NoSid = NoSid
    Sids <- OneSid
    MaxConn = 2
    RingCaps = {1}
    RingMax = 1
    TotalCap = 1
    ReadMax = 1
    DrainReads = 1
    MaxOut = 0
    MaxInput = 0
    InputMax = 0
    HeaderMetas = 1
    FrameMetas = 1
    MetaSizes = {0}
    KillGrace = 0
    ShutdownGrace = 0
    Orphan = 0
    ExitedTtl = 0
    Idle = 0
    Stimuli = {"spawn", "takeover"}
SPECIFICATION Spec
PROPERTIES OnlyOwnerSpawns
