CONSTANTS
    p1 = p1
    p2 = p2
    Procs <- MCProcs
    MaxUid = 4
SYMMETRY Interchangeable
SPECIFICATION Spec
CHECK_DEADLOCK FALSE
INVARIANTS
    NoUidTwice
    SettledClustersAgree
