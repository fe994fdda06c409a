CONSTANTS
    NumTasks = 2
    Parent <- TwoOfAnEpic
    Priority <- SamePriority
    Start <- Staggered
    MaxWorkers = 1
    Limit <- OneEach
    MaxRuns = 2
    MaxTroubles = 1
SPECIFICATION FairSpec
INVARIANTS TypeOK ReviewedOnce
PROPERTIES EpicOrderKept OwedIsDone
\* The runs and the troubles are bounded.
CHECK_DEADLOCK FALSE
