SPECIFICATION Spec
CONSTANTS
    rollSize_ = 5
    flushInterval_ = 1
    checkEveryN_ = 3
    kRollPerSeconds_ = 4
    MaxLen = 2
    MaxTime = 9
    MaxBytes = 7
    Never = never
INVARIANTS AppendIsWhole DayRolls FlushesInTime SizeRolls
CHECK_DEADLOCK FALSE
