SPECIFICATION Spec
CONSTANTS
    p1 = p1
    p2 = p2
    s1 = s1
    Pods = {p1, p2}
    Writers = {p1, p2}
    Slots = {s1}
    ReadsLag = FALSE
    BumpMayFail = FALSE
    MaxWrites = 1
    MaxFailures = 0
    MaxCrashes = 0
INVARIANT CaughtUpPodsAreFresh
