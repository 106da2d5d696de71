SPECIFICATION FairSpec
CONSTANTS
    Keys = {"one", "two"}
    Targets = {"t1"}
    TargetOf <- MCTargetOf
    MaxJobs = 3
    Pool = 2
    ListLimit = 100
    MaxCancel = 1
    MaxCrash = 1
INVARIANTS TypeOK NothingLeft OneJobPerKey
PROPERTY JobsEnd
CHECK_DEADLOCK FALSE
