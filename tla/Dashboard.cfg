SPECIFICATION DashSpec
CONSTANTS
    Requests <- MCRequests
    Cap = 3
    Blank = Blank
    Threads = {t1, t2}
    Streams = {s1}
    Capacity = 1
    MaxTotal = 4
INVARIANTS
    DedupIsComplete
PROPERTIES
    ImplementsLog
    FreshestArrives
CHECK_DEADLOCK FALSE
