\* Three members, any owner and collaborators, three commands of which two overlap,
\* each executed up to twice; the commands are bounded, so the system may stop.
SPECIFICATION Spec
CONSTANTS
    c = c
    m1 = m1
    m2 = m2
    s1 = s1
    s2 = s2
    Keep = Keep
    Free = Free
    NoReceipt = NoReceipt
    Members = {c, m1, m2}
    Creator = c
    Slots = {s1, s2}
    Commands <- MCCommands
    MaxCommands = 3
    MaxAttempts = 2
SYMMETRY Symmetry
INVARIANTS
    TypeOK
    OwnerGate
    CompletedStopsTimers
    AppliedOnce
PROPERTIES
    AcceptanceIsOwn
    ImplementsOwnership
CHECK_DEADLOCK FALSE
