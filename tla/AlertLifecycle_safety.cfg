SPECIFICATION Spec
CONSTANTS
    a1 = a1  a2 = a2  a3 = a3  r1 = r1  r2 = r2  f1 = f1  f2 = f2
    None = None
    Alerts <- TwoAlerts
    Fingerprints <- TwoFingerprints
    Requests <- TwoSlots
    Sources <- AllSources
    Surfaces <- AllSurfaces
    Faults <- AllFaults
    TTL = 2
    MaxCount = 2
SYMMETRY Interchangeable
INVARIANTS TypeOK DedupNamesOwnFingerprint OneOpenAlertPerSlot
PROPERTY ImplementsLedger
