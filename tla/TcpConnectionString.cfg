SPECIFICATION SafetySpec
CONSTANTS
    User = {u1}
    Loop = loop
    ShutdownCallers = {}
    MaxSends = 1
    MaxOwnSends = 1
    MsgLen <- MCMsgLen
    HighWaterMark = 3
    ReusesStrings = TRUE
INVARIANTS SentAsPassed
CHECK_DEADLOCK FALSE
