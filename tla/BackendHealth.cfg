CONSTANTS
    Backends = {b1, b2, b3}
    MaxHealthEntries = 1
    MaxFrozenBackends = 1
    MaxFreeze = 2
    DefaultFreeze = 2
    CredentialFreeze = 3
    FreezeDuration <- MCFreezeDuration
    Threshold = 2
    MaxIdle = 0
    Gated = {b1}
    ProbeAttempts = 2
SPECIFICATION ProbeFairSpec
INVARIANTS
    FrozenBounded
    NoOrphanCount
    WatchedWhileFrozen
PROPERTIES
    AutoFreezeNeedsRun
    WatchersEnd
