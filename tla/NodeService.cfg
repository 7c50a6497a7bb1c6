SPECIFICATION FairSpec
CONSTANTS
    MaxEnds = 2
INVARIANTS
    TypeOK
    BlocksFindServices
PROPERTY
    EssentialEndStopsNode
CHECK_DEADLOCK FALSE
