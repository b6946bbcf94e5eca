SPECIFICATION Spec
CONSTANTS
    Peers = {p1}
    Conns = {c1, c2}
    MaxThreads = 2
    MaxFds = 2
    MaxUserCalls = 2
CHECK_DEADLOCK FALSE
INVARIANT OpenIsOwned
PROPERTY PendingServed
