CONSTANTS
    Byte <- MCByte
    Caps <- MCCaps
    MaxChunk = 4
    MaxLog = 6
SPECIFICATION Spec
INVARIANTS TypeOK Bounded HoldsTail ReadsExact
PROPERTIES Monotonic
