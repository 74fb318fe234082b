CONSTANTS
    None = None
    Outsider = Outsider
    Attempt = {a1, a2}
    Name = {"next", "submit"}
    Portable = {"next", "submit"}
    Previewable = {"next"}
    Widget <- MCWidget
    LimitRequests = 2
    LimitObservations = 2
    LimitCandidates = 2
    Completion <- MCCompletion
    Dir = {d1, d2}
    Times = {0, 1, 2}
    MaxOutside = 1
SYMMETRY MCSymmetry
SPECIFICATION PrivateSpec
INVARIANTS
    NamesHoldWhole
    EachOwnsItsResult
    VerifiedIsInert
CHECK_DEADLOCK FALSE
