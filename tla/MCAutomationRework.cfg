CONSTANTS
    NumTasks = 1
    Parent <- Alone
    Priority <- Urgent
    Start <- ToReview
    MaxWorkers = 1
    Limit <- OneEach
    MaxRuns = 2
    MaxTroubles = 0
SPECIFICATION FairSpec
PROPERTY FailsAreReviewed
CHECK_DEADLOCK FALSE
