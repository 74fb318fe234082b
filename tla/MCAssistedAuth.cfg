CONSTANTS
    Steps <- MCSteps
    Success <- MCSuccess
    Origins = {"o1", "o2"}
    Elsewhere = "elsewhere"
    MaxLines = 3
    MaxPosts = 2
SPECIFICATION Spec
INVARIANTS
    SignalsAreNotShared
    BundleIsObserved

    
CHECK_DEADLOCK FALSE
