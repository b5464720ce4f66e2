CONSTANTS
    a1 = a1
    a2 = a2
    l1 = l1
    l2 = l2
    Apps <- MCApps
    Ports <- MCPorts
    Offers <- MCOffers
    Locks <- MCLocks
    Names <- MCNames
    MaxSessions = 2
    MaxDeaths = 1
    None = None
SYMMETRY AppSymmetry
SPECIFICATION Spec
CHECK_DEADLOCK FALSE
INVARIANTS
    HeldIsLocked
    DestructedAreGone
