CONSTANTS
    Sides = {"active", "passive"}
    HasSrq = FALSE
    MpaRev = 1
    Moves = {"TERMINATE"}
    Faults <- DeviceFaults
    MaxData = 1
SPECIFICATION Spec
INVARIANTS TypeOK 
PROPERTY KeepsContract
CHECK_DEADLOCK FALSE
