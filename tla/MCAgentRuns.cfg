SPECIFICATION Spec
CONSTANTS
    k1 = k1
    MaxObjs = 2
    MaxRuns = 2
    Cancellers = {k1}
    StartModes = {"review"}
    Resumes = TRUE
    MaxCrashes = 0
    MaxTicks = 0
    MaxFaults = 1
    MaxHand = 0
    MaxAsks = 1
INVARIANTS
    TypeOK
    OneProcess
PROPERTIES
    NeedsUserKept
    HistoryKept
CHECK_DEADLOCK FALSE
