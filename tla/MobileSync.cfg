\* Two tasks, one event line, four commands in two milliseconds; the commands are
\* bounded, so the system may stop.
SPECIFICATION Spec
CONSTANTS
    NoLine = NoLine
    Tasks = {t1, t2}
    Lines = {l1}
    Ids = {1, 2}
    Limit = 2
    MaxCommands = 4
    MaxClock = 2
SYMMETRY Symmetry
INVARIANTS
    TypeOK
    ChangesInSlice
    LinesPresent
    RemovalListed
    QuietSyncMissesNothing
CHECK_DEADLOCK FALSE
