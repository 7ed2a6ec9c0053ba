CONSTANTS
    Clients = {c1, c2}
    Apps = {app}
    Events <- MCEvents
    Batches <- MCBatches
    Requests <- MCRequests
    Imports <- MCImports
    InitialStores <- MCInitialStores
    MaxAttempts = 2
    Budget = 3
SYMMETRY Symmetry
SPECIFICATION Spec
INVARIANTS
    RuleProfilesResolve
    CascadeIsComplete
    WritesGoLive
    ExportedSetImports
    CapturesBracketBroker
PROPERTIES
    DuplicatesHaveACause
    CascadeSparesReferenced
CHECK_DEADLOCK FALSE
