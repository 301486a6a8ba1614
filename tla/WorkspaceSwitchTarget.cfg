\* Two saves and a switch, or any three of the two kinds, without a fault and within
\* one millisecond.
CONSTANTS
    Workspaces = {w1, w2}
    NoWorkspace = NoWorkspace
    Calls = {c1, c2, c3}
    Kinds = {"activate", "save"}
    Retries = 0
    MaxClock = 1
    MaxFaults = 0
SPECIFICATION Spec
INVARIANTS
    SavesHitShown
CHECK_DEADLOCK FALSE
