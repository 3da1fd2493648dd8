CONSTANTS
    Requests = {r1, r2}
    backend = b
    Backends = {b}
    MaxHealthEntries = 1
    MaxFrozenBackends = 1
    MaxFreeze = 1
    DefaultFreeze = 1
    FreezeDuration <- MCFreezeDuration
    Threshold = 1
    MaxIdle = 0
    Names <- MCNames
    Asked <- MCAsked
    Keys <- MCKeys
    MinDelay = 1
    DefaultDelay <- MCDefaultDelay
    QuotaLadder <- MCQuotaLadder
    MaxDelay = 1
    CountExpiry = 0
    Hints = {1}
    Streaming = {TRUE, FALSE}
    MaxRetries = 1
    PermitLimit = 1
    Statuses = {400, 403, 429, 500}
    UseCurlCffi = TRUE
    AnyRouter = TRUE
    LastProfile = 1
SPECIFICATION FairSpec
INVARIANTS
    PermitsConserved
PROPERTY EveryRequestAnswered
