CONSTANTS
    Scans <- QuadScan
SPECIFICATION Spec
INVARIANTS NearLossless
