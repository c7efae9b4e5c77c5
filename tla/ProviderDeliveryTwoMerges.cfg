SPECIFICATION Spec
CONSTANTS
    d1 = d1
    d2 = d2
    d3 = d3
    opened = opened
    merged = merged
    mergedApp = mergedApp
    deployed = deployed
    undated = undated
    pr = pr
    dep = dep
    Ids = {d1, d2, d3}
    Events = {opened, merged, mergedApp}
    Keys = {pr}
    KeyOf <- Keyed
    TimeOf <- Timed
    Merges = {merged, mergedApp}
    Deploys = {}
    Sent <- PullRequestSent
    Requests = {q1, q2}
    NoEvent = NoEvent
    NoRequest = NoRequest
CHECK_DEADLOCK FALSE
INVARIANTS EveryMergeDeliveryQueued
