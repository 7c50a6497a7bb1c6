SPECIFICATION ChannelSpec
CONSTANTS
    MaxBlocks = 3
    MaxPages = 2
    MaxRelay = 3
    OtherHeads <- MCOtherHeads
INVARIANTS
    TypeOK
    ApisFitHeader
    HeadersKeepHistory
    LeavesInOrder
    IncludedCanBeReceived
    ReceivedWasSent
CHECK_DEADLOCK FALSE
