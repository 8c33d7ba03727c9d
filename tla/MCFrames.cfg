SPECIFICATION Spec
CONSTANTS
    Capacity = 2
    Live = 3
CHECK_DEADLOCK FALSE
INVARIANTS
    FramesWhole
