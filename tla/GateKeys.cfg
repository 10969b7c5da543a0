SPECIFICATION Spec
CONSTANTS
    c1 = c1
    Conns = {c1}
    u1 = u1
    Users = {u1}
    r1 = r1
    Rooms = {r1}
    None = None
    i1 = i1
    Ids = {i1}
    CacheSize = 2
    QueueSize = 1
    Timeout = 1
    MaxFrames = 7
    MaxEvents = 0
INVARIANTS HubInv KeyRunsOnce
CHECK_DEADLOCK FALSE
