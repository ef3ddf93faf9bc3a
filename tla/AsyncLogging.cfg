SPECIFICATION Spec
CONSTANTS
    Line = {a, b, c, d, x}
    Long = {x}
    Cap = 3
    Blank = blank
    None = none
INVARIANTS SparesSuffice
PROPERTIES LinesInOrder LinesAreWritten StopEnds
CHECK_DEADLOCK FALSE
