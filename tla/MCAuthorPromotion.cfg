CONSTANTS
    home = home
    away = away
    popup = popup
    None = None
    Origin <- MCOrigin
    InitialOrigin = home
    DashboardOrigin = home
    GoalOrigin = home
    Child <- MCChild
    GoalContext = popup
    Shape <- MCShape
    Budget = {1}
    MaxPost = 2
    MaxObservations = 2
    MaxContexts = 1
    MaxOutputs = 1
    MaxApprovals = 2
    MaxActions = 2
    MaxInputs = 0
    Popup <- MCChild
    Parent <- MCParent
    Redacted <- MCRedacted
SPECIFICATION PromotionSpec
INVARIANT
    CapabilityOpensItsPopups
CHECK_DEADLOCK FALSE
