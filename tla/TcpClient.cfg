SPECIFICATION ClientSpec
CONSTANTS
    kInitRetryDelayMs = 1
    kMaxRetryDelayMs = 1
    MaxQueue = 1
    Callers = {t1}
    Conns = {c1, c2}
    Others <- ConnFunctors
SYMMETRY Symmetry
CHECK_DEADLOCK FALSE
INVARIANTS
    StartedAgrees
    LiveIsTracked
    DisconnectHolds
    DeadClientReleased
