SPECIFICATION ThreadSpec
CONSTANTS
    Functor = {f1}
    Thread = {t1, t2}
    kInitEventListSize = 2
INVARIANTS QuitsLiveLoop DestroyedIsDone
PROPERTIES LoopStarts DestructorReturns
CHECK_DEADLOCK FALSE
