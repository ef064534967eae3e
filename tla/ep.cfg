CONSTANTS
    Sides = {"active", "passive"}
    HasSrq = TRUE
    MpaRev = 2
    Moves = {"CLOSING"}
    Faults <- ConnectionFaults
    MaxData = 1
SPECIFICATION Spec
INVARIANTS RefsBalance NoUseAfterFree ConsumerTold
PROPERTY KeepsContract
CHECK_DEADLOCK FALSE
