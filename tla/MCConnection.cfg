SPECIFICATION FairSpec
CONSTANTS
    Capacity = 1
    Live = 3
CHECK_DEADLOCK FALSE
INVARIANTS
    TypeOK
    AtBoundary
PROPERTIES
    NothingAfterTear
    AttentiveSpared
    SilentDropped
