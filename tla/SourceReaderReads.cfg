SPECIFICATION FairSpec
CONSTANTS
    MaxSamples = 2
    Times <- T2
    Sizes <- Sizes2
    ReadSizes <- Reads2
    MaxEmpty = 1
    HasDeadline = TRUE
    MaxOutstanding = 2
INVARIANTS
    RefsExact
    ClosedHoldsNothing
    CallbackAlive
    CloseNeverBlocks
PROPERTIES
    ImplementsReadCloser
    ReadReturns
CHECK_DEADLOCK FALSE
