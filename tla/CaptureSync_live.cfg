SPECIFICATION FairSpec
CONSTANTS
    r1 = r1
    r2 = r2
    StoreChoices = {TRUE, FALSE}
    SaveMayFail = TRUE
    BodyChoices = {TRUE}
    Queries <- MCQueries
    PageLimit = 2
    TTL = 1
    MaxId = 2
    MaxInFlight = 1
    MaxTime = 1
    MaxRestarts = 1
    BufferCap = 2
    Rules = {r1}
CHECK_DEADLOCK FALSE
PROPERTIES
    PendingIsFlushed
    ExpiredIsSwept
