SPECIFICATION GuideSpec
CONSTANTS
    Catalogs <- MCCatalogs
    Targets <- MCTargets
    Expiries = {2}
    Assessments = {2}
    MaxActions = 2
    MaxMacros = 2
    MaxOutputs = 1
    MaxEvidence = 2
    MaxParameters = 1
    MaxTime = 4
INVARIANTS  BundleIsSound VerifiedIsReviewed
CHECK_DEADLOCK FALSE
