\* One backend started twice on a database with one row; two of its steps killed or
\* raising.
SPECIFICATION Spec
CONSTANTS
    NoStart = NoStart
    Starts = {p1}
    Rows = {r1}
    MaxStarts = 2
    MaxFaults = 2
INVARIANT NoEmptySubstitute
CHECK_DEADLOCK FALSE
