SPECIFICATION Spec
CONSTANTS
    MaxBlocks = 3
    MaxPages = 2
INVARIANT
    AggregatesAllFragments
CHECK_DEADLOCK FALSE
