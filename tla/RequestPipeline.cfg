SPECIFICATION Spec
CONSTANTS
    q1 = q1
    q2 = q2
    Requests = {q1, q2}
    Arrivals <- MCArrivals
    Configs <- MCConfigs
    Overlays <- MCOverlays
    FullWeight = 3
    MaxBuilds = 2
    MaxTime = 1
SYMMETRY Symmetry
CHECK_DEADLOCK FALSE
INVARIANTS
    TypeOK
    MostSpecificWins
    SharesMatchWeights
    HaltSuppressesFaults
    FaultsAreInForce
    PipelineAnswers
    StormIsBounded
