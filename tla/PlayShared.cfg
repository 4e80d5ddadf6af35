SPECIFICATION FairSpec
CONSTANTS
    Callers = {c1, c2}
    Formats = {f1, f2}
    NoFormat = NoFormat
    Length = 2
    Calls = 3
INVARIANTS OneContext PlayedToTheEnd
PROPERTY PCMReturns
CHECK_DEADLOCK FALSE
