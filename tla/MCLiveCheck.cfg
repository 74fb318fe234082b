CONSTANTS
    Actions <- MCActions
    Selections = {{1}, {2}, {3}}
    EngineSets = {{"chromium", "webkit"}, {"chromium", "firefox", "webkit"}}
    MaxRequests = 2
    MaxMatches = 2
SPECIFICATION Spec
INVARIANTS
    CheckIsObserved
    ReportIsFair
CHECK_DEADLOCK FALSE
