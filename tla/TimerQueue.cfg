SPECIFICATION FairSpec
CONSTANTS
    Timers = {t1, t2}
    Times = {1, 2}
    Intervals = {0, 1}
    MaxTime = 3
    Garbage = {"none", "periodic"}
CHECK_DEADLOCK FALSE
INVARIANTS
    ArmedInTime
    CancelSticks
PROPERTY TimersFire
