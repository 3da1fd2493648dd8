CONSTANTS
    None = None
    Real = {sig}
    Thoughts = {"thought"}
    ThoughtSigned = {sig}
    call = call
    CallIds = {call}
    Sent <- MCSent
    KnownCaches <- MCKnownCaches
    Requests = {r1, r2}
    ChunkKinds = {"thinking", "call", "finish"}
    MaxIncoming = 3
    MinAuth = 4
    MinToolEvents = 2
    MismatchMin = 2
    TTL = 0
    MaxRequests = 3
    MaxChunks = 2
    MaxFailures = 1
    MaxTime = 2
SPECIFICATION Spec
INVARIANTS ResetForgets CheckpointsEnd
PROPERTY TurnsAreKept
SYMMETRY Symmetry
CHECK_DEADLOCK FALSE
