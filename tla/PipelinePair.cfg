SPECIFICATION Spec
CONSTANTS
    Workers = {w1, w2}
    Master = m
    MaxTxn = 2
    MaxReg = 1
    MaxCrash = 0
    MaxFault = 0
    MaxRetry = 0
    MaxDeath = 1
SYMMETRY MCSymmetry
CHECK_DEADLOCK FALSE
INVARIANTS   LocalServes
PROPERTY Settled
