SPECIFICATION FairSpec
CONSTANTS
    Batches = {b1, b2}
    Explicit = {b2}
    TextOf <- Texts
    CorrectedText = fixed
    Requests = {r1}
    Admins = {a1}
    Retention = 1
    MaxTime = 1
    MaxIntentions = 2
    MaxBegun = 2
    Revisions = {m1, m2}
    Workers = {w1, w2}
    w1 = w1
    w2 = w2
    m1 = m1
    m2 = m2
    EngineOf <- TwoEngines
    MaxAttempts = 2
    MaxStalls = 1
CHECK_DEADLOCK FALSE
INVARIANTS
    NothingDerivedRemains
    AvailableHasVector
PROPERTIES
    SkippedIsObsolete
    EveryJobSettles
