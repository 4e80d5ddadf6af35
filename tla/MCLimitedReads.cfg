SPECIFICATION FairSpec
CONSTANTS
    Limits <- Limits4
    Totals <- Totals3
    Endless = Endless
    ReadSizes <- Reads2
    MaxTime = 4
    MaxRead = 5
INVARIANT ByteCap
PROPERTY DrainEnds
CHECK_DEADLOCK FALSE
