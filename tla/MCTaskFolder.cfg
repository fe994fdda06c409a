CONSTANTS
    Names = {"a", "b"}
    Legacy = {"b"}
    StartForms = {"file", "folder"}
    MaxCommands = 4
    MaxFaults = 2
    MaxEvents = 2
SPECIFICATION Spec
INVARIANTS TypeOK ListedExist EntriesStay EventsStay
PROPERTIES AttachRelists
\* Commands, saves and events are bounded.
CHECK_DEADLOCK FALSE
