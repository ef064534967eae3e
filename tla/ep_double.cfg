CONSTANTS
    Sides = {"passive"}
    HasSrq = FALSE
    MpaRev = 2
    Moves = {}
    Faults = {"send"}
    MaxData = 1
SPECIFICATION Spec
INVARIANT PutsAreHeld
CHECK_DEADLOCK FALSE
