SPECIFICATION Spec
CONSTANTS
    Base = base
    l1 = l1
    l2 = l2
    Threads <- MCThreads
    Starter = {base, t1}
    MaxFds = 2
    User = {u1}
    MaxInputs = 3
INVARIANTS ChannelsAreAlive EndsProperly PoolStartedOnce
PROPERTIES ClientsAreAccepted ClosedAreFreed DestroyedServerLeavesNothing
CHECK_DEADLOCK FALSE
