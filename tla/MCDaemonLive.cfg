SPECIFICATION FairSpec
CONSTANTS
    Tasks = {t1, t2}
    NoTask = NoTask
    Enqueuers = {e1}
    Starters = {s1}
    Workers = {w1}
    QueueBuffer = 1
    MaxLimit = 1
    Limits = {1}
    MaxOrphans = 1
    MaxGeneration = 1
PROPERTIES
    QueueDrains
CHECK_DEADLOCK FALSE
