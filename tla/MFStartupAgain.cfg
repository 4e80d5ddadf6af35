SPECIFICATION Spec
CONSTANTS
    Callers = {c1, c2}
    NoCaller = NoCaller
    Missing = TRUE
    MaxCalls = 4
INVARIANT StartupResolves
CHECK_DEADLOCK FALSE
