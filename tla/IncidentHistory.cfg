SPECIFICATION Spec
CONSTANTS
    i1 = i1  i2 = i2  f1 = f1  g1 = g1  u1 = u1  q1 = q1  q2 = q2  b1 = b1
    None = None
    Incidents <- TwoIncidents
    Fingerprints <- OneFingerprint
    Tags <- OneTag
    Lengths <- TwoLengths
    Runbooks <- OneRunbook
    Urls <- OneUrl
    Reports <- ThreeReports
    Updates <- TwoUpdates
    Requests <- TwoRequests
    MaxChanges = 4
    MaxFailures = 1
SYMMETRY Interchangeable
INVARIANTS TypeOK HistoryExplainsRow HistoryIsTrue ClosingIsTold DetailIsExplained
