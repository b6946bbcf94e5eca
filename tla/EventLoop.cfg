SPECIFICATION FairSpec
CONSTANTS
    LoopThread = loop
    Callers = {c1, c2}
    Functors = {f1, f2, f3}
    IoWatchers = {io}
    MaxEventfd = 2
INVARIANTS
    ExactlyOnceFifo
    NoLostWakeup
PROPERTIES
    ImplementsExecutor
    BatchOnlyShrinks
    LoopResponds
