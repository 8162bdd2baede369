CONSTANTS
    Depths <- MCDepths
    MappedErrors <- MCMappedErrors
    LineLengths = {1, 2, 3, 6, 21, 70, 200}
SPECIFICATION Spec
INVARIANTS CodesRoundTrip CallsAreLegal CodesWithinLimit TablesAgree
