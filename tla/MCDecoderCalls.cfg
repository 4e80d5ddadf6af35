SPECIFICATION FairSpec
CONSTANTS
    Callers = {c1, c2, c3}
    Decoders = {d1}
    Streams = {s1, s2}
    None = None
    Nesting = TRUE
INVARIANTS
    IInv
    NoTeardownUnderUse
    WaitGroupExact
    CloseMeansReleased
PROPERTIES
    AddBeforeWait
    ImplementsLifecycle
    EveryCallReturns
CHECK_DEADLOCK FALSE
