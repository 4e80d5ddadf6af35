SPECIFICATION ProcessSpec
CONSTANTS
    Callers = {c1, c2}
    NoCaller = NoCaller
    Missing = TRUE
    MaxCalls = 4
INVARIANTS
    NoNilCall
    PlatformPaired
    RefsCount
    NothingLeaks
    BufferRetained
    PlatformOutlastsStreams
PROPERTY OnceReturns
CHECK_DEADLOCK FALSE
