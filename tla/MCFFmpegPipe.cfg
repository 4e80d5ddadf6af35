SPECIFICATION GoSpec
CONSTANTS
    Recordings <- Recordings4
    Total = 4
    Capacity = 2
    ReadSizes <- Reads2
    Closes = 2
INVARIANTS
    NothingLeft
PROPERTIES
    ImplementsReadCloser
    CloseReturns
    LeakEnds
    KillCollects
    CallsReturn
CHECK_DEADLOCK FALSE
