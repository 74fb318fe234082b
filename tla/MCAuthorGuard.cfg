CONSTANTS
    app = app
    idp = idp
    ads = ads
    r1 = r1
    r2 = r2
    p1 = p1
    p2 = p2
    None = None
    Origin <- MCOrigin
    Approved <- MCApproved
    PolicyOrigin <- ads
    Request <- MCRequest
    Kind <- MCKind
    Popup <- MCPopup
    Budget = {1}
    Size = {1}
    MaxBytes = 1
    MaxRequests = 2
    Slots = 1
    MaxCalls = 2
SYMMETRY Symmetry
SPECIFICATION Spec
INVARIANTS
    
    NothingLostSilently
PROPERTIES
    RequestsWithinAuthority
    PoisonIsFinal
CHECK_DEADLOCK FALSE
