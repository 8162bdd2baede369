CONSTANTS
    ByteBits = 8
    StreamBuffer = 6
    CacheBytes = 8
    RefillLimit = 9
    ReadBuffer = 12
    Values <- WideCodes
    ZeroRuns = {40}
    Capacities = {4, 20}
    MaxBits = 190
SPECIFICATION Spec
INVARIANTS WriterAssertsHold StreamIsComplete
PROPERTIES ImplementsChannel
