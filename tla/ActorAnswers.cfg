SPECIFICATION FairSpec
CONSTANTS
    Callers = {c1, c2}
    Users = {u1}
    Capacity = 2
    MaxDrops = 0
    MaxCallbacks = 1
    NoOne = NoOne
    Free = Free
INVARIANT NobodyLeftWaiting
PROPERTY EveryCallAnswered
CHECK_DEADLOCK FALSE
