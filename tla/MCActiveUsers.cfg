CONSTANTS
    u1 = u1
    u2 = u2
    c1 = c1
    Users <- MCUsers
    Clients <- MCClients
    Mod = 2
    Window = 4
    CacheSecs = 2
    MaxNow = 7
    MaxHears = 3
    MaxAsks = 2
    None = None
SPECIFICATION Spec
CHECK_DEADLOCK FALSE
PROPERTIES
    ActiveWithinWindow
