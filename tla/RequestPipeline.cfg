CONSTANTS
    None = None
    Real = {sig}
    Thoughts = {"thought"}
    ThoughtSigned = {}
    CallIds <- MCCallIds
    Weight <- MCWeight
    Length <- MCLength
    Definitions = {"definitions"}
    SafeLimit = 8
    MaxResult = 5
    KeepRounds = 2
    KeepRoundsLast = 1
    KeepThoughts = 2
    KeepThoughtsLast = 1
    KeepUsers = 1
    LookBack = 1
    RecentCount = 2
    MaxConversations = 1
    MaxIncoming = 1
    MinAuth = 4
    MinToolEvents = 2
    MismatchMin = 2
    Clients <- MCClients
    KnownCaches <- MCKnownCaches
    Signed <- MCSigned
    Scid = s
    MaxMessages = 3
    MaxMessagesTool = 4
    CompressAbove = 2
    Backends = 2
    MaxRetries = 1
    MaxTurns = 4
SPECIFICATION Spec
INVARIANTS ChainsStayIntact NewestReaches ThoughtsFit
CHECK_DEADLOCK FALSE
