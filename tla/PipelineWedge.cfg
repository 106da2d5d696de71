SPECIFICATION FairSpec
CONSTANTS
    Workers = {w1}
    Master = m
    MaxTxn = 2
    MaxReg = 1
    MaxCrash = 0
    MaxFault = 0
    MaxRetry = 0
    MaxDeath = 0
CHECK_DEADLOCK FALSE
PROPERTY DebtsSettle
