\* Three calls of any kind, a login first if any; one fault or crash.
\* Every call runs once, so the system may stop.
SPECIFICATION FairSpec
CONSTANTS
    Calls = {c1, c2, c3}
    Ops = {"login", "connected", "restore", "switch", "logout"}
    NoCall = NoCall
    NoPair = NoPair
    MaxGen = 3
    MaxFaults = 1
INVARIANTS TypeOK SnapshotSecretPresent OneReplayBehind
PROPERTIES NeverRegress ImplementsChain CallsEnd
CHECK_DEADLOCK FALSE
