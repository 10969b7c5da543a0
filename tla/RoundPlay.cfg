SPECIFICATION PersistSpec
CONSTANTS
    WallSize = 3
    WithExchange = FALSE
    AllowLeave = TRUE
    MaxMelds = 1
    MaxRobbers = 2
    Sleepers = {0, 1}
    Leavers = {0, 1}
INVARIANTS
    HandShape
    WaitsUnlessGangRobbed
    ClosedForAReason
    EarthlyWindow
    ViewMatchesEngine
    TokensFit
PROPERTIES
    WinnersBeforePlay
    RestartKeepsTheRound
CHECK_DEADLOCK FALSE
