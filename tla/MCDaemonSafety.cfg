SPECIFICATION Spec
CONSTANTS
    Tasks = {t1}
    NoTask = NoTask
    Enqueuers = {e1}
    Starters = {s1}
    Workers = {w1, w2}
    QueueBuffer = 1
    MaxLimit = 2
    Limits = {1, 2}
    MaxOrphans = 1
    MaxGeneration = 2
SYMMETRY Symmetry
INVARIANTS
    TypeOK
    FirstBoardConservesSlots
    FirstBoardOwnsEntries
    SlotsCoverHolders
    OneRunPerTask
PROPERTIES
    ImplementsPool
    FirstDrainWaitsForRuns
CHECK_DEADLOCK FALSE
