CONSTANTS
    Requests = {r1, r2, r3}
    FailureThreshold = 2
    RecoveryTimeout = 2
    SuccessThreshold = 2
    MaxFailures = 4
SPECIFICATION FairBreakerSpec
PROPERTIES
    TripsOnlyOnRun
    ClosesOnlyOnStreak
    GateSpec
    RefusalsEnd
