\* Three calls over one key and no key, one worker and one place in its queue, a restart;
\* every call ends and the pool is reopened at most once, so the system may stop.
\* The event loop and the callbacks are fair, the dispatched work may hang for ever.
SPECIFICATION FairSpec
CONSTANTS
    Calls = {c1, c2, c3}
    Keys = {k1}
    NoKey = NoKey
    NoCall = NoCall
    MaxWorkers = 1
    MaxQueued = 1
    MaxRestarts = 1
INVARIANTS TypeOK SlotsConserved
PROPERTIES ImplementsGate SlotsComeBack CallsEnd
CHECK_DEADLOCK FALSE
