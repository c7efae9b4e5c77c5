SPECIFICATION MCSpec
CONSTANTS
    Writers = {w1, w2}
    Sealers = {p1, p2}
    Settle = 1
    OpenFor = 1
    MinInterval = 2
    EmptyInterval = 3
    MaxSealRows = 1
    MaxClock = 4
    MaxSeals = 3
    MaxInstantRows = 2
    NowMinGap = 1
    Posters = {q1, q2}
    JobKeys = {k1, j1}
    Reports = {j1}
    Runners = {n1, n2}
    MaxOpen = 1
    MaxClaims = 2
    Fetches = {f1, f2}
    Publishers = {a1}
    Reuse = 1
    Validity = 2
    IssueAttempts = 2
    MaxTicks = 2
    MaxPublished = 2
    MaxLeases = 3
    Batches = {b1, b2, b3}
    Explicit = {b2, b3}
    TextOf <- Texts
    CorrectedText = fixed
    Requests = {r1, r2}
    Admins = {d1}
    Revisions = {m1}
    Retention = 1
    MaxTime = 1
    MaxIntentions = 3
    MaxBegun = 3
    LastCommit = 4
    EventTime <- EventTimes
    CommitTime <- CommitTimes
    Base <- Parents
    Patch <- Patches
    Rewrites <- Amended
    Pushed = {3}
    Uploads <- Sent
    Hands = {h1, h2}
    MaxStarted = 3
    StatementKeys = {s1, s2}
    Operators = {o1, o2}
    LastSuspect = 2
    MaxCommands = 4
    MaxTree = 9
    Nodes <- TreeNodes
    Paths <- TreePaths
    PullCommits = {1, 2, 3}
    Listings <- Forced
    Webhooks = {g1, g2}
SYMMETRY HandSymmetry
CHECK_DEADLOCK FALSE
INVARIANTS
    RowsSealedOnce
    StaleRunHarmless
    ReportChainedOnce
    ServedIsCurrent
    StoredInOrder
    NoTwinLeases
    CurrentIsLatest
    DroppedForSuccessor
    RebuildConverges
    AnsweredIsStored
    NothingPublishedOver
    ChainStaysPublishable
    RetiredAfterAnchoring
    OnlyMembersVerify
    MembersAgreed
PROPERTIES
    GuardNeverRefuses
    SourcesListed
