SPECIFICATION Spec
CONSTANTS
    User = {u1}
    Loop = loop
    ShutdownCallers = {loop}
    MaxSends = 1
    MaxOwnSends = 1
    MsgLen <- MCMsgLen
    HighWaterMark = 3
    ReusesStrings = FALSE
PROPERTIES ShutdownHalfCloses
CHECK_DEADLOCK FALSE
