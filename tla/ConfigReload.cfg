SPECIFICATION FairSpec
CONSTANTS
    p1 = p1
    p2 = p2
    s1 = s1
    Pods = {p1, p2}
    Writers = {p1}
    Slots = {s1}
    ReadsLag = FALSE
    BumpMayFail = TRUE
    MaxWrites = 1
    MaxFailures = 1
    MaxCrashes = 1
INVARIANTS
    TypeOK
    CaughtUpReadersAreFresh
    RulesFindTheirReferences
PROPERTIES
    ReadersNeverGoBack
    BumpedWritesReachReaders
