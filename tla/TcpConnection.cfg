SPECIFICATION Spec
CONSTANTS
    User = {u1}
    Loop = loop
    ShutdownCallers = {u1, loop}
    MaxSends = 2
    MaxOwnSends = 1
    MsgLen <- MCMsgLen
    HighWaterMark = 2
    ReusesStrings = FALSE
INVARIANTS StreamIntact WriteInterest UpThenDownOnce SendersInOrder
PROPERTIES
    HalfCloseAfterDrain
    CompleteWhenDrained
    OutputDrains
    HalfClosesUnlessOutputWaits
CHECK_DEADLOCK FALSE
