SPECIFICATION ExportSpec
CONSTANTS
    Posters = {q1}
    JobKeys = {k1}
    Reports = {}
    Runners = {n1}
    MaxOpen = 1
    MaxClaims = 2
CHECK_DEADLOCK FALSE
INVARIANT ReadyHasFile
