SPECIFICATION Spec
CONSTANTS
    a1 = a1  a2 = a2  w1 = w1  w2 = w2
    Alerts <- OneAlert
    Seeded <- OneAlert
    Workers <- OneWorker
    Policies <- RepeatingPolicy
    Editable = FALSE
    MaxFailures = 0
    MaxAge = 3
    MaxEscalations = 8
INVARIANT RepeatsAsOftenAsConfigured
