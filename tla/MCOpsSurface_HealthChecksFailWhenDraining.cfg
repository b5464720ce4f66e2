CONSTANTS
    r1 = r1
    r2 = r2
    r3 = r3
    Requests <- MCRequests
    Calls <- MCCalls
    MaxRecent = 2
    MaxErrorRate = 50
    Window = 2
    Sizes = {1, 2, 99, 100, 101, 10000}
    MaxCrashes = 0
    NoCall = NoCall
SYMMETRY RequestSymmetry
SPECIFICATION Spec
INVARIANT
    HealthChecksFailWhenDraining
