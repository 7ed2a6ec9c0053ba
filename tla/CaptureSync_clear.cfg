SPECIFICATION Spec
CONSTANTS
    r1 = r1
    r2 = r2
    StoreChoices = {TRUE}
    SaveMayFail = FALSE
    BodyChoices = {TRUE}
    Queries <- MCQueries
    PageLimit = 2
    TTL = 1
    MaxId = 2
    MaxInFlight = 1
    MaxTime = 1
    MaxRestarts = 0
    BufferCap = 2
    Rules = {r1, r2}
SYMMETRY Symmetry
CHECK_DEADLOCK FALSE
PROPERTY ClearEmptiesStore
