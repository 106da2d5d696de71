SPECIFICATION Spec
CONSTANTS
    Voters = {1, 2, 3}
    Candidates = {1, 2}
    Calls = {c1, c2}
    LeaseMs = 2
    MaxSkew = 0
    MaxClock = 2
    MaxLeases = 2
    MaxFaults = 0
INVARIANTS
    LeaseExclusive
    OneLeasePerTerm
PROPERTIES
    FreshTermsGrow
SYMMETRY CallSymmetry
CHECK_DEADLOCK FALSE
