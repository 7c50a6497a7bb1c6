SPECIFICATION FairSpec
CONSTANTS
    MaxRelay = 3
    MaxPara = 3
    MaxOther = 1
    MaxFaults = 0
    RelayParents = {0}
    StartPara = 2
    StartHeads = {2}
    Orders <- BothOrders
    Nil = Nil
    Undecodable = Undecodable
    NoDigest = NoDigest
PROPERTY
    ProvableIsSubmitted
CHECK_DEADLOCK FALSE
