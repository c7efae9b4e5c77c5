SPECIFICATION FairSpec
CONSTANTS
    p1 = p1
    p2 = p2
    Passes = {p1}
    BatchSize <- Ones
    BatchesPerPass = 1
    ListLimit = 1
    MaxRecords = 3
    MaxResumes = 1
    NoRange = NoRange
PROPERTIES EveryRecordSettles
