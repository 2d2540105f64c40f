CONSTANTS
    s1 = s1
    s2 = s2
    NoSid = NoSid
    Sids <- TwoSids
    MaxConn = 2
    RingCaps = {2}
    RingMax = 2
    TotalCap = 3
    ReadMax = 2
    DrainReads = 1
    MaxOut = 2
    MaxInput = 0
    InputMax = 1
    HeaderMetas = 1
    FrameMetas = 1
    MetaSizes = {0}
    KillGrace = 0
    ShutdownGrace = 0
    Orphan = 0
    ExitedTtl = 0
    Idle = 0
    Stimuli = {"spawn", "attach", "ack", "vanish", "die", "time"}
SYMMETRY SidSymmetry
SPECIFICATION Spec
INVARIANTS TypeOK StreamOK NoSilentGap NeverLosesOutput EofMeansComplete MemoryBounded
