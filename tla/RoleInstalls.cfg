SPECIFICATION FairSpec
CONSTANTS
    n1 = n1
    n2 = n2
    Nodes = {n1, n2}
    LeaseMs = 2
    MaxSkew = 0
    MaxClock = 2
    MaxTerm = 2
    MaxEvents = 1
    MaxInstalls = 1
INVARIANT SingleWriter
PROPERTIES
    
    ExpiryNoticed
CHECK_DEADLOCK FALSE
