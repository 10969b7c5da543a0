SPECIFICATION Spec
CONSTANTS
    c1 = c1
    c2 = c2
    Conns = {c1, c2}
    u1 = u1
    Users = {u1}
    r1 = r1
    Rooms = {r1}
    None = None
    Ids = {}
    CacheSize = 1
    QueueSize = 1
    Timeout = 1
    MaxFrames = 4
    MaxEvents = 1
INVARIANT HubInv
PROPERTY DeadClientForgotten
CHECK_DEADLOCK FALSE
