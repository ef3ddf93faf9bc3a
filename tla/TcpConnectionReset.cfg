SPECIFICATION SafetySpec
CONSTANTS
    User = {u1}
    Loop = loop
    ShutdownCallers = {}
    MaxSends = 0
    MaxOwnSends = 0
    MsgLen <- MCMsgLen
    HighWaterMark = 3
    ReusesStrings = FALSE
INVARIANTS ResetIsHandled
CHECK_DEADLOCK FALSE
