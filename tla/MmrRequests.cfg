SPECIFICATION Spec
CONSTANTS
    MaxNumber = 3
    MaxAnnounced = 4
    MaxFaults = 1
    ProofSizes = {1, 2}
INVARIANTS
    TypeOK
    QueryFollowsRounds
    RefusedOnlyByForks
    MeanWithinSizes
CHECK_DEADLOCK FALSE
