SPECIFICATION MCSpec
CONSTANTS
    Waiters = {t1, t2, t3, t4}
    InitCount = 1
    MaxCount = 3
    Threads = {t1, t2, t3}
    Capacities = {1, 2}
    MaxPuts = 4
    Loggers = {l1, l2}
    kBufferSize = 3
    rollSize_ = 3
    kCheckTimeRoll_ = 1
    kRollPerSeconds_ = 2
    Lengths = {1, 2, 3}
    MaxLines = 3
    MaxStarts = 2
    MaxTime = 2
CHECK_DEADLOCK FALSE
INVARIANTS
    NotifyWakesEnough
    NobodyForgotten
    LinesInOrder
    ReliesRightly
PROPERTIES
    ValuesTaken
    LoggingProceeds
