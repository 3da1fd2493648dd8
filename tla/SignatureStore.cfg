CONSTANTS
    None = None
    Texts <- MCTexts
    Norm <- MCNorm
    Prefix <- MCPrefix
    MaxSize = 1
    MemoryTTL = 1
    Window = 1
    Tools = {tool}
    Sessions = {session}
    Owners = {o1, o2}
    DbTTL = 1
    L1TTL = 1
    L2TTL = 3
    Migrations = {TRUE, FALSE}
    Scenes <- MCScenes
    Phases = {1, 2, 3, 4}
    MaxCalls <- MCMaxCalls
    MaxTime = 4
SPECIFICATION Spec
INVARIANTS RightText SignatureAges StoredIsServed
PROPERTY MigrationKeeps
SYMMETRY Symmetry
CHECK_DEADLOCK FALSE
