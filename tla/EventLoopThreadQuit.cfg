SPECIFICATION ThreadSpec
CONSTANTS
    LoopThread = loop
    Callers = {owner, c1}
    Functors = {f1}
    IoWatchers = {io}
    MaxEventfd = 1
    Owner = owner
    Quitters = {}
CHECK_DEADLOCK FALSE
PROPERTIES
    QuitEndsThread
