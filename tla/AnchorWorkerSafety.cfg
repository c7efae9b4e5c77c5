SPECIFICATION Spec
CONSTANTS
    p1 = p1
    p2 = p2
    Passes = {p1, p2}
    BatchSize <- OneAndTwo
    BatchesPerPass = 2
    ListLimit = 8
    MaxRecords = 2
    MaxResumes = 2
    NoRange = NoRange
INVARIANTS BatchesTile AnchoredWhole OneResumePerStop
PROPERTIES ImplementsAnchoredLog
