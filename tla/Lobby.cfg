\* Two players, one room number, two room nodes, two requests at a time.
SPECIFICATION Spec
CONSTANTS
    Users = {u1, u2}
    Rooms = {r1}
    Nodes = {local, far}
    Local = local
    None = None
    Slots = {1, 2}
    Tries = 2
    Privates = {FALSE}
    BotCounts = {4}
    MaxOps = 3
    MaxFaults = 1
INVARIANT LobbyInv
PROPERTIES ToldIsOwned CallsEnd
CHECK_DEADLOCK FALSE
