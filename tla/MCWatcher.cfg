CONSTANTS
    NoBoard = NoBoard
    Boards = {b1, b2}
    Opened = b1
    Coordinators = {"groom"}
    Foldered = {b2}
    Tasks = {t1}
    SinkSize = 1
    MaxChanges = 2
    MaxOpens = 1
    MaxWork = 1
SPECIFICATION FairSpec
INVARIANTS TypeOK CacheFresh OneBoard
PROPERTIES ChangeIsScanned DaemonLooks StaleCacheGoes
\* Commands, opens and SetCLIPath are bounded.
CHECK_DEADLOCK FALSE
