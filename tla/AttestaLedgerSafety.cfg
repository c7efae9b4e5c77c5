SPECIFICATION Spec
CONSTANTS
    c1 = c1
    p1 = p1
    d1 = d1
    x = x
    y = y
    Rows = {c1, p1}
    Workers = {w1, w2}
    Subjects = {x, y}
    SubjectOf <- OneSubject
    KindOf <- ByName
    Lineage <- NoLineage
    NoRow = NoRow
    Limit = 2
    Requeueable = {c1, p1}
    MaxAttempts = 2
    LateClaims = 1
SYMMETRY WorkerSymmetry
INVARIANTS TypeOK ChainLinked PreviousComplete DoneIffChained KindOrder
PROPERTIES LiveClaimEndedByHolder ImplementsLog
