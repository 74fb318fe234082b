CONSTANTS
    c1 = c1
    c2 = c2
    c3 = c3
    Ghost = Ghost
    None = None
    Call <- MCCall
    Key = {1, 2}
    Metadata <- MCMetadata
    MaxItems = 1
    MaxAttempts = 2
    Duration = 1
    MaxClock = 1
SYMMETRY CallSymmetry
SPECIFICATION Spec
INVARIANTS
    CapKept
    OnlyRemovalsArePartial
PROPERTIES
    EntriesAreKept
    LeasesProtect
CHECK_DEADLOCK FALSE
