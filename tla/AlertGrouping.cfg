SPECIFICATION Spec
CONSTANTS
    a1 = a1  a2 = a2  r1 = r1  r2 = r2  k1 = k1  j1 = j1  j2 = j2
    NoKey = NoKey
    None = None
    Alerts <- TwoAlerts
    Rules <- TwoRules
    Keys <- OneKey
    Contents <- ThreeContents
    SeverityOf <- Severities
    Jobs <- TwoJobs
    MaxFailures = 1
SYMMETRY Interchangeable
CHECK_DEADLOCK FALSE
INVARIANTS TypeOK CountersCoverMembers NothingSlipsThrough
