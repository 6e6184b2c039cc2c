SPECIFICATION Spec
CONSTANTS
    a1 = a1  a2 = a2  w1 = w1  w2 = w2
    Alerts <- TwoAlerts
    Seeded <- OneAlert
    Workers <- TwoWorkers
    Policies <- EditedPolicies
    Editable = TRUE
    MaxFailures = 2
    MaxAge = 2
    MaxEscalations = 3
SYMMETRY Interchangeable
INVARIANTS TypeOK EventsMatchEscalations
PROPERTY OneLateEscalationPerWorker
