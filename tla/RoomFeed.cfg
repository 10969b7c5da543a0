SPECIFICATION Spec
CONSTANTS
    p1 = p1
    p2 = p2
    Pollers = {p1, p2}
    None = None
    MaxEvents = 2
    MaxLogins = 3
    MaxFaults = 2
    Faults = {"push", "expire", "replay", "gate", "leave"}
INVARIANT FeedInv
PROPERTIES CancelledPollersEnd ImplementsFeed
CHECK_DEADLOCK FALSE
