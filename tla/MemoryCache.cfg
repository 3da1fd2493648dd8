SPECIFICATION Spec
CONSTANTS
    t1 = t1 t2 = t2 t3 = t3
    Threads = {t1, t2, t3}
    k1 = k1 k2 = k2 k3 = k3
    Keys = {k1, k2, k3}
    Filters <- MCFilters
    Warm <- MCWarm
    MaxSize = 2
    TTL = 1
    Policies <- MCPolicies
    None = None
    Roles <- MCRoles
    MaxCalls = 3
    MaxTime = 1
INVARIANTS Exclusion SizeBounded GetIsFresh
PROPERTY CallsReturn
CHECK_DEADLOCK FALSE
