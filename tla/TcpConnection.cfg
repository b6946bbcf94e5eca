SPECIFICATION FairSpec
CONSTANTS
    LoopUser = loop
    Users = {u1}
    MaxSends = 2
    MaxCount = 2
    MaxQueue = 2
CHECK_DEADLOCK FALSE
INVARIANTS
    CallbacksPaired
    WritesWatched
    StreamIntact
    FinAfterData
    DeadSendOnlyIfLate
    DeletedUnwatched
PROPERTIES
    ClosedIsDeleted
    BufferDrains
