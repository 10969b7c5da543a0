SPECIFICATION FairSpec
CONSTANTS
    WallSize = 2
    WithExchange = TRUE
    AllowLeave = TRUE
    MaxMelds = 1
    MaxRobbers = 2
    Sleepers = {0, 1, 2, 3}
    Leavers = {1}
INVARIANTS
    ExchangeSkewedOnlyBySurrender
    IInv
PROPERTY RoundEndsOrStalls
CHECK_DEADLOCK FALSE
