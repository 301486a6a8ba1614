\* One session, four calls over three keys, a password reset, an abort or a crash;
\* every call is served once, so the system may stop.
SPECIFICATION Spec
CONSTANTS
    Sessions = {s1}
    Requests = {r1, r2, r3, r4}
    Keys = {k1, k2, k3}
    NoPair = NoPair
    NoKey = NoKey
    NoSession = NoSession
    NoRequest = NoRequest
    MaxVersion = 4
    MaxResets = 1
    MaxFaults = 1
SYMMETRY Symmetry
INVARIANTS TypeOK LockHeldInTransaction ConsumedOnce SecretMatchesRow NoOrphanSecret
PROPERTIES ImplementsChain
CHECK_DEADLOCK FALSE
