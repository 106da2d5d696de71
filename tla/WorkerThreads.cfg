SPECIFICATION FairSpec
CONSTANTS
    MaxGen = 2
    MaxCommands = 3
    QueueMax = 2
    MaxEpoch = 1
    MaxLink = 1
    CloseMayFail = FALSE
    MayDie = FALSE
INVARIANTS
    TypeOK
    StageKeepsRuntime
    RetirementProof
PROPERTIES
    StartsUnfenced
    AbandonedFreed
CHECK_DEADLOCK FALSE
