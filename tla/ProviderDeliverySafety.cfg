SPECIFICATION Spec
CONSTANTS
    d1 = d1
    d2 = d2
    d3 = d3
    opened = opened
    merged = merged
    mergedApp = mergedApp
    deployed = deployed
    undated = undated
    pr = pr
    dep = dep
    Ids = {d1, d2, d3}
    Events = {opened, merged, mergedApp, deployed, undated}
    Keys = {pr, dep}
    KeyOf <- Keyed
    TimeOf <- Timed
    Merges = {merged, mergedApp}
    Deploys = {deployed}
    Sent <- AllSent
    Requests = {q1, q2, q3}
    NoEvent = NoEvent
    NoRequest = NoRequest
SYMMETRY RequestSymmetry
CHECK_DEADLOCK FALSE
INVARIANTS Chronological ProjectedOnce AcknowledgedIsSettled AppliedIsComplete
PROPERTIES LiveLeaseIsExclusive ImplementsStore
