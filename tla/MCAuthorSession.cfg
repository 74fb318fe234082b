CONSTANTS
    home = home
    away = away
    popup = popup
    None = None
    Origin <- MCOrigin
    InitialOrigin = home
    DashboardOrigin = home
    GoalOrigin = home
    Child <- MCChild
    GoalContext = "main"
    Shape <- MCShape
    Budget = {1}
    MaxPost = 2
    MaxObservations = 2
    MaxContexts = 1
    MaxOutputs = 1
    MaxApprovals = 2
    MaxActions = 2
    MaxInputs = 1
    Popup <- MCChild
    Parent <- MCParent
    Redacted <- MCRedacted
SPECIFICATION PromotionSpec
INVARIANTS
    TypeOK
    EvidenceIsCurrent
    ArtifactTellsAll
    OneClickPerApproval
    OriginsAgree
    AuthorityIsOneGeneration
    
    
PROPERTIES
    HumanIsNotRaced
    ImplementsContract
CHECK_DEADLOCK FALSE
