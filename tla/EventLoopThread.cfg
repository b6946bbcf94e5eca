SPECIFICATION ThreadSpec
CONSTANTS
    LoopThread = loop
    Callers = {owner, c1}
    Functors = {f1}
    IoWatchers = {io}
    MaxEventfd = 1
    Owner = owner
    Quitters = {loop}
CHECK_DEADLOCK FALSE
INVARIANTS
    LoopUsable
PROPERTIES
    OwnerReturns
