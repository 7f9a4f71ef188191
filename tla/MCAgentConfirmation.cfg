SPECIFICATION Spec

CONSTANTS
    c1 = c1
    c2 = c2
    k1 = k1
    k2 = k2
    Confirmations = {c1, c2}
    Callbacks = {k1, k2}
    TTL = 1
    StuckAfter = 1
    MaxCrashes = 1
    MaxDemotions = 1

INVARIANTS
    TypeOK
    AtMostOnce
    CancelledNeverRuns
    DemotedNeverRuns

PROPERTIES
    KeepsPromise
