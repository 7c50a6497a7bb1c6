SPECIFICATION Spec
CONSTANTS
    N = 2
    Skews = {0, 3000, 12000}
    MaxSkew = 12000
    Tick = 3000
    StartTime = 24000
    MaxTime = 48000
    MaxLag = 1
    NoJob = NoJob
INVARIANTS
    TypeOK
    FailsOnlyInOldSlots
    HonestBlocksAccepted
CHECK_DEADLOCK FALSE
PROPERTY
    HeadsAdvance
