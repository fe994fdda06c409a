SPECIFICATION FairSpec
CONSTANTS
    Procs = {p1, p2}
    Nobody = Nobody
    MaxId = 2
    Seeded = 2
    StartStatuses = {"backlog", "code-review"}
    StartForms = {"folder"}
    StartNextIds = {3}
    StartDocs <- OneDoc
    Commands <- FlowCommands
    StrictWip = TRUE
    ReadyLimit = 1
    InProgressLimit = 1
    MaxCommands = 3
    MaxCrashes = 1
    MaxAppends = 1
PROPERTIES
    GuardedMovesKeepWip
    ReviewMovesCarryRef
    MovesStartWhereExpected
    CommandsEnd
CHECK_DEADLOCK FALSE
