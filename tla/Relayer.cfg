SPECIFICATION Spec
CONSTANTS
    MaxRelay = 3
    MaxPara = 3
    MaxOther = 1
    MaxFaults = 1
    RelayParents = {0, 3}
    StartPara = 2
    StartHeads = {0, 1}
    Orders <- BothOrders
    Nil = Nil
    Undecodable = Undecodable
    NoDigest = NoDigest
INVARIANTS
    TypeOK
    SubmissionsCoherent
    SubmittedOncePerBlock
    SubmittedWasIncluded
PROPERTY
    RemovedWithProof
    DeliversAsPromised
CHECK_DEADLOCK FALSE
