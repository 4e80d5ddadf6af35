SPECIFICATION Spec
CONSTANTS
    Callers = {c1, c2}
    Formats = {f1}
    NoFormat = NoFormat
    Length = 2
    Calls = 2
INVARIANT LateMeansStopped
CHECK_DEADLOCK FALSE
