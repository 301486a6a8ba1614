\* A command that commits while the phone is answered.
SPECIFICATION Spec
CONSTANTS
    NoLine = NoLine
    Tasks = {t1}
    Lines = {l1}
    Ids = {1, 2}
    Limit = 2
    MaxCommands = 3
    MaxClock = 2
INVARIANTS
    MissedEventHarmless
CHECK_DEADLOCK FALSE
