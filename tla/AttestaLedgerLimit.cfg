SPECIFICATION Spec
CONSTANTS
    c1 = c1
    p1 = p1
    d1 = d1
    x = x
    y = y
    Rows = {c1, p1}
    Workers = {w1, w2}
    Subjects = {x, y}
    SubjectOf <- TwoSubjects
    KindOf <- ByName
    Lineage <- Merged
    NoRow = NoRow
    Limit = 2
    Requeueable = {c1, p1}
    MaxAttempts = 1
    LateClaims = 1
PROPERTIES RecoveryFailsAtLimit
