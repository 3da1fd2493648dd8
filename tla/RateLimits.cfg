CONSTANTS
    Keys = {k1, k2}
    MinDelay = 1
    DefaultDelay <- MCDefaultDelay
    QuotaLadder <- MCQuotaLadder
    MaxDelay = 4
    CountExpiry = 1
SPECIFICATION LimitsSpec
SYMMETRY Symmetry
PROPERTIES
    QuotaLadderClimbs
    FreshRunStartsShort
