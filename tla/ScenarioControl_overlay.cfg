SPECIFICATION Spec
CONSTANTS
    a1 = a1
    a2 = a2
    MaxRuns = 2
    PhaseCounts = {1, 2}
    Admins = {a1}
INVARIANT LivePhaseIsOverlaid
