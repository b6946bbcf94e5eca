SPECIFICATION FairSpec
CONSTANTS
    kInitRetryDelayMs = 500
    kMaxRetryDelayMs = 30000
    MaxQueue = 3
    Others = {}
CHECK_DEADLOCK FALSE
INVARIANTS
    OneRetryTimer
    AttemptConsistent
    KeepsTrying
    DanglingOnlyIfOvertaken
PROPERTY Connected
