SPECIFICATION Spec
CONSTANTS
    Voters = {1, 2, 3}
    Candidates = {1, 2}
    Calls = {c1}
    LeaseMs = 2
    MaxSkew = 1
    MaxClock = 3
    MaxLeases = 2
    MaxFaults = 1
INVARIANTS
    IssuedBacked
    BoundedLockout
PROPERTIES
    VoteIsFinal
    LeaseRegister
CHECK_DEADLOCK FALSE
