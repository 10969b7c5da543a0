SPECIFICATION Spec
CONSTANTS
    Callers = {c1}
    Users = {u1}
    Capacity = 3
    MaxDrops = 2
    MaxCallbacks = 1
    NoOne = NoOne
    Free = Free
INVARIANTS
    ActorInv
    ExpiredDeadlineWatched
    OfflineFollowsLastSignal
CHECK_DEADLOCK FALSE
