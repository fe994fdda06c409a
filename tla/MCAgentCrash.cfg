SPECIFICATION FairSpec
CONSTANTS
    k1 = k1
    MaxObjs = 2
    MaxRuns = 1
    Cancellers = {k1}
    StartModes = {"review"}
    Resumes = FALSE
    MaxCrashes = 1
    MaxTicks = 1
    MaxFaults = 0
    MaxHand = 1
    MaxAsks = 0
INVARIANTS
    StatusAgrees
PROPERTIES
    CancelReturns
    RunningResolves
    EntryReturned
CHECK_DEADLOCK FALSE
