SPECIFICATION FairSpec
CONSTANTS
    MaxRelay = 2
    MaxPara = 2
    MaxOther = 0
    MaxFaults = 0
    RelayParents = {0}
    StartPara = 2
    StartHeads = {1}
    Orders <- BothOrders
    Nil = Nil
    Undecodable = Undecodable
    NoDigest = NoDigest
PROPERTY
    Stage3Arrives
CHECK_DEADLOCK FALSE
