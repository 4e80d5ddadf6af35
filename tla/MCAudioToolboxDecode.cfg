SPECIFICATION FairSpec
CONSTANTS
    MaxLen = 7
    PacketBytes = 2
    Places <- Places4
    Looks <- Looks2
    PerPacket <- PerPacket2
    PacketsPerLoop = 2
    Descriptions = 2
    Requests <- Requests3
INVARIANTS
    DecodesAll
    CallbacksHaveHandles
    NothingLeft
    SliceInBounds
PROPERTY
    DecodeReturns
CHECK_DEADLOCK FALSE
