\* The instance of TaskCollaboration.cfg: a transfer, and an edit composed before it.
SPECIFICATION Spec
CONSTANTS
    c = c
    m1 = m1
    m2 = m2
    s1 = s1
    s2 = s2
    Keep = Keep
    Free = Free
    NoReceipt = NoReceipt
    Members = {c, m1, m2}
    Creator = c
    Slots = {s1, s2}
    Commands <- MCCommands
    MaxCommands = 3
    MaxAttempts = 2
PROPERTIES
    NoLostOwner
CHECK_DEADLOCK FALSE
