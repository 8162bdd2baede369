CONSTANTS
    ByteBits = 3
    StreamBuffer = 5
    CacheBytes = 5
    RefillLimit = 6
    ReadBuffer = 7
    Values <- NarrowCodes
    ZeroRuns = {13}
    Capacities = {3, 8}
    MaxBits = 24
SPECIFICATION Spec
INVARIANTS TypeOK NoMarkerInScan NeverRejected PositionIsMarker NothingLost WriterAssertsHold StreamIsComplete
PROPERTIES ImplementsChannel
