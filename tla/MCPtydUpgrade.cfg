CONSTANTS
    s1 = s1
    s2 = s2
    NoSid = NoSid
    Sids <- OneSid
    MaxConn = 2
    RingCaps = {1}
    RingMax = 1
    TotalCap = 1
    ReadMax = 2
    DrainReads = 1
    MaxOut = 2
    MaxInput = 1
    InputMax = 0
    HeaderMetas = 0
    FrameMetas = 0
    MetaSizes = {0, 1}
    KillGrace = 0
    ShutdownGrace = 0
    Orphan = 0
    ExitedTtl = 0
    Idle = 0
    Stimuli = {"spawn", "meta", "upgrade", "attach", "ack", "input", "die", "hangup",
               "vanish", "time"}
SPECIFICATION Spec
INVARIANTS StreamOK NoSilentGap NeverLosesOutput
PROPERTIES OffsetsMonotonic ImplementsSessionHost
