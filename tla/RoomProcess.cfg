SPECIFICATION Spec
CONSTANTS
    a = a
    Nobody = Nobody
    Users = {a}
    Seats = {1}
    h1 = h1
    h2 = h2
    Handlers = {h1, h2}
    MaxHands = 1
    MaxRequests = 3
    Keyed = {"leave"}
    MaxSteps = 3
    MaxCrashes = 1
    MaxFaults = 1
SYMMETRY Symmetry
INVARIANTS ProcessInv SnapshotWithinLog SettledHandStaysSettled PlayingHasRound ViewCoversCursor
PROPERTY ImplementsJournal
CHECK_DEADLOCK FALSE
