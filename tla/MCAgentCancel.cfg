SPECIFICATION Spec
CONSTANTS
    k1 = k1
    MaxObjs = 2
    MaxRuns = 1
    Cancellers = {k1}
    StartModes = {"review"}
    Resumes = FALSE
    MaxCrashes = 1
    MaxTicks = 0
    MaxFaults = 0
    MaxHand = 0
    MaxAsks = 0
INVARIANTS
    CancelIsDurable
CHECK_DEADLOCK FALSE
