SPECIFICATION Spec
CONSTANTS
    Workers = {w1}
    Master = m
    MaxTxn = 2
    MaxReg = 2
    MaxCrash = 1
    MaxFault = 1
    MaxRetry = 0
    MaxDeath = 0
CHECK_DEADLOCK FALSE
INVARIANTS TypeOK CandidateOwed
PROPERTY PublishedWhole
