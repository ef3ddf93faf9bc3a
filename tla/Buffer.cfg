SPECIFICATION Spec
CONSTANTS
    Byte = {zero, a, b}
    Zero = zero
    Data <- MCData
    kCheapPrepend = 2
    kInitialSize = 3
    ExtraSize = 2
    MaxSize = 9
    SizeT = 64
    IntMax = 16
INVARIANTS IndexInv
PROPERTIES BytesInOrder
CHECK_DEADLOCK FALSE
