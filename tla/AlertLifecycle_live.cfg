SPECIFICATION FairSpec
CONSTANTS
    a1 = a1  a2 = a2  a3 = a3  r1 = r1  r2 = r2  f1 = f1  f2 = f2
    None = None
    Alerts <- ThreeAlerts
    Fingerprints <- OneFingerprint
    Requests <- TwoSlots
    Sources <- AllSources
    Surfaces <- ResolveOnly
    Faults <- NoFaults
    TTL = 2
    MaxCount = 2
PROPERTIES RepeatedFiringIsHeard ImplementsLedger
