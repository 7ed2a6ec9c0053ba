SPECIFICATION FairSpec
CONSTANTS
    a1 = a1
    a2 = a2
    MaxRuns = 3
    PhaseCounts = {2}
    Admins = {a1}
INVARIANTS
    TypeOK
    SlotHeldByLiveRun
    OverlayHasRunner
    HaltAbortsEarlierRuns
PROPERTIES
    OverlayDisplacedOnlyByStoppedRun
    StopTakesEffect
    SlotIsFreed
