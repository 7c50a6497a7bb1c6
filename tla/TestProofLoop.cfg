SPECIFICATION FairSpec
CONSTANTS
    MaxBlocks = 4
    MaxFaults = 2
    Nil = Nil
INVARIANTS
    TypeOK
    MatchIsSettled
    RefusedOnlyWhenRaced
PROPERTY
    KeepsSubmitting
CHECK_DEADLOCK FALSE
