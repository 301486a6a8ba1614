\* Two backends at a time, three starts in all, three of their steps killed or
\* raising; two rows.  Starts are bounded, so the system may stop.
SPECIFICATION Spec
CONSTANTS
    NoStart = NoStart
    Starts = {p1, p2}
    Rows = {r1, r2}
    MaxStarts = 3
    MaxFaults = 3
INVARIANTS
    TypeOK
    RowsOnDisk
    ReadyServes
PROPERTIES
    FailedKeepsRows
CHECK_DEADLOCK FALSE
