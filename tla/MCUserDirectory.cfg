CONSTANTS
    k1 = k1
    k2 = k2
    t1 = t1
    t2 = t2
    z1 = z1
    z2 = z2
    Clients <- MCClients
    Tokens <- MCTokens
    Zoos <- MCZoos
    None = None
    MaxCalls = 4
SYMMETRY Names
SPECIFICATION Spec
CHECK_DEADLOCK FALSE
INVARIANTS
    RegisteredIsIndexed
    RegenerationIsExact
