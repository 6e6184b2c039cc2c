SPECIFICATION Spec
CONSTANTS
    i1 = i1  i2 = i2  i3 = i3  f1 = f1   a1 = a1  m1 = m1  m2 = m2
    None = None
    Incidents <- ThreeIncidents
    Fingerprints <- OneFingerprint
    Alerts <- OneAlert
    Merges <- TwoMerges
    MaxFailures = 1
SYMMETRY Interchangeable
INVARIANTS TypeOK MergesEnd AlertsFollowMerges
PROPERTIES MergeForgetsNothing
