SPECIFICATION Spec
CONSTANTS
    Procs = {p1, p2}
    Nobody = Nobody
    MaxId = 1
    Seeded = 1
    StartStatuses = {"backlog", "in-progress", "code-review"}
    StartForms = {"folder"}
    StartNextIds = {1, 2}
    StartDocs <- WornDocs
    Commands <- AllCommands
    StrictWip = FALSE
    ReadyLimit = 1
    InProgressLimit = 1
    MaxCommands = 2
    MaxCrashes = 0
    MaxAppends = 0
PROPERTIES
    ReviewMovesStartWhereAccepted
CHECK_DEADLOCK FALSE
