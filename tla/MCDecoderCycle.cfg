SPECIFICATION Spec
CONSTANTS
    Callers = {c1, c2}
    Decoders = {d1}
    Streams = {s1, s2}
    None = None
    Nesting = TRUE
INVARIANT NoCloseCycle
CHECK_DEADLOCK FALSE
