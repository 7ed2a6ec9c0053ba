SPECIFICATION Spec
CONSTANTS
    Threads = {t1, t2}
    Rules = {rule}
    Overall = overall
    Latencies <- MCLatencies
    Slots = 3
    Samples = 2
    MaxHits = 4
    MaxMinutes = 3
SYMMETRY Symmetry
INVARIANTS
    HistoryHolds
    SnapshotReportsRecent
    PlacesAreBounded
CHECK_DEADLOCK FALSE
