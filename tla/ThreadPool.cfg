SPECIFICATION Spec
CONSTANTS
    MaxThreads = 2
    Task = {a, b, c, x}
    Throws = {x}
    None = none
INVARIANTS DestroyedPoolIsDone
PROPERTIES TasksInOrder EarlyTasksRun PoolEnds
CHECK_DEADLOCK FALSE
