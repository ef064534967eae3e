CONSTANTS
    Sides = {"active", "passive"}
    HasSrq = FALSE
    MpaRev = 1
    Moves = {}
    Faults = {}
    MaxData = 1
SPECIFICATION LiveSpec
PROPERTIES ConnectAnswered DestroyReturns
CHECK_DEADLOCK FALSE
