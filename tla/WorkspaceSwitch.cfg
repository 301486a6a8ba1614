\* Two organizations, any two calls of the user, each repeated once; two faults and two
\* milliseconds.  Calls are bounded, so the system may stop.
CONSTANTS
    Workspaces = {w1, w2}
    NoWorkspace = NoWorkspace
    Calls = {c1, c2}
    Kinds = {"activate", "save", "login", "logout"}
    Retries = 1
    MaxClock = 2
    MaxFaults = 2
SPECIFICATION Spec
INVARIANTS
    TypeOK
    SavesHitSent
    DataOfContext
    NoFalseRefusal
PROPERTIES
    LoadingEnds
CHECK_DEADLOCK FALSE
