SPECIFICATION Spec
CONSTANTS
    MaxGen = 2
    MaxCommands = 5
    QueueMax = 1
    MaxEpoch = 1
    MaxLink = 0
    CloseMayFail = TRUE
    MayDie = TRUE
INVARIANTS
    ReleasedStaysReleased
    NothingLost
    ReadyServes
CHECK_DEADLOCK FALSE
