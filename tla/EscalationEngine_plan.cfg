SPECIFICATION FairSpec
CONSTANTS
    a1 = a1  a2 = a2  w1 = w1  w2 = w2
    Alerts <- TwoAlerts
    Seeded <- TwoAlerts
    Workers <- OneWorker
    Policies <- OrderedPolicies
    Editable = FALSE
    MaxFailures = 1
    MaxAge = 4
    MaxEscalations = 6
PROPERTIES EngineFollowsDryRun DryRunIsCarriedOut
