CONSTANTS
    Unset = Unset
    Call <- MCCall
    Kind <- MCKind
    Origins = {"o1", "o2"}
SPECIFICATION Spec
INVARIANTS
    ExchangeIsBound
    ReturnTellsTruth
PROPERTIES
    NoSuccessAfterClose
    TeardownEnds
CHECK_DEADLOCK FALSE
