SPECIFICATION FairSpec
CONSTANTS
    Timers = {t1}
    Times = {1, 2}
    Intervals = {0}
    MaxTime = 2
    Garbage = {"none", "periodic", "invalid"}
CHECK_DEADLOCK FALSE
PROPERTIES
    TimersFire
