SPECIFICATION Spec
CONSTANTS
    Functor = {f1, f2, f3}
    Thread = {t1, t2}
    kInitEventListSize = 1
INVARIANTS NoLostWakeup
PROPERTIES FunctorsInOrder QueuedFunctorsRun QuitEndsLoop
CHECK_DEADLOCK FALSE
