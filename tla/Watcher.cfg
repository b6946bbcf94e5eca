SPECIFICATION MCSpec
CONSTANTS
    Watchers = {1, 2, 3}
    Fds = {1, 2, 3}
    Conditions <- MCConditions
    FreedIndex = {0}
    kEventSizeInit = 1
CHECK_DEADLOCK FALSE
PROPERTIES
    ImplementsPoller
    AllAreTold
