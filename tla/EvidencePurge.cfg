SPECIFICATION Spec
CONSTANTS
    Batches = {b1, b2}
    Explicit = {b2}
    TextOf <- Texts
    CorrectedText = fixed
    Requests = {r1}
    Admins = {a1}
    Retention = 1
    MaxTime = 1
    MaxIntentions = 2
    MaxBegun = 3
    Revisions = {m1}
    Workers = {}
    w1 = w1
    w2 = w2
    m1 = m1
    m2 = m2
    EngineOf <- NoEngines
    MaxAttempts = 1
    MaxStalls = 0
CHECK_DEADLOCK FALSE
INVARIANTS PurgeCanFinish
