SPECIFICATION Spec
CONSTANTS
    Users = {a, b, c, d, e}
    Nobody = Nobody
    MaxHands = 2
    AllowLeave = TRUE
SYMMETRY PlayerSymmetry
INVARIANTS
    LifecycleInv
PROPERTIES
    SeatsHoldDuringPlay
CHECK_DEADLOCK FALSE
