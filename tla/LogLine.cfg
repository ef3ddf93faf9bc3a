SPECIFICATION Spec
CONSTANTS
    Size = 110
    kMaxNumericSize = 48
    Integer <- MCInteger
    LineNumber = {7, 1234}
    TextLen = {30}
    MaxPieces = 6
    MaxLines = 2
INVARIANTS LineFits LinesAreWhole IntegersReadBack
PROPERTIES FatalLineIsOut
CHECK_DEADLOCK FALSE
