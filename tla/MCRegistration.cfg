CONSTANTS
    None = None
    Protocol = {"v2", "v3", "v4"}
    MaxRequests = 2
    Authority = {"narrow", "wide"}
    Policy <- MCPolicy
    Provider = {"turnstile"}
    Fetch = {"f1"}
    MaxObservations = 2
    MaxCandidates = 2
    Page = {"p1", "p2"}
    Name = {"next", "submit"}
    Shows <- MCShows
    Portable = {"next", "submit"}
    Previewable = {"next"}
    Widget <- MCWidget
    Flow <- MCFlow
SPECIFICATION Spec
INVARIANTS
    ReviewIsEvidenced
    OnlyReviewedTraffic
    BrowserReleased
    
CHECK_DEADLOCK FALSE
