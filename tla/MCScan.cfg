CONSTANTS
    Scans <- ManyScans
SPECIFICATION Spec
INVARIANTS DefaultsOrdered Lockstep NearLossless CallsAreLegal
