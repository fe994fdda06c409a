SPECIFICATION Spec
CONSTANTS
    Procs = {p1, p2}
    Nobody = Nobody
    MaxId = 2
    Seeded = 1
    StartStatuses = {"backlog", "in-progress"}
    StartForms = {"file", "folder"}
    StartNextIds = {1, 2}
    StartDocs <- OneDoc
    Commands <- StoreCommands
    StrictWip = FALSE
    ReadyLimit = 1
    InProgressLimit = 1
    MaxCommands = 3
    MaxCrashes = 1
    MaxAppends = 1
SYMMETRY Symmetry
INVARIANTS
    TypeOK
    OneHome
    BoardFileFresh
    PromotionPathFree
PROPERTIES
    ImplementsStore
CHECK_DEADLOCK FALSE
