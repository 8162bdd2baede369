CONSTANTS
    RESET = 6
    MaxError = 5
    InitialA = 2
    RITypes = {0, 1}
SPECIFICATION Spec
INVARIANTS RunStatisticsBounded RunErrorRoundTrip RunSearchEnds
