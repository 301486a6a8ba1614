\* A request of each kind, each sent up to three times; two faults.  Attempts are
\* bounded, so the system may stop.
CONSTANTS
    Requests = {r1, r2}
    Versioned = {r1}
    Attempts = 3
    MaxVersion = 3
    MaxFaults = 2
SPECIFICATION Spec
INVARIANTS
    TypeOK
    AnswerTrue
PROPERTIES
    ChangedOnce
CHECK_DEADLOCK FALSE
