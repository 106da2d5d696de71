SPECIFICATION HandoffSpec
CONSTANTS
    n1 = n1
    n2 = n2
    Nodes = {n1, n2}
    LeaseMs = 2
    MaxSkew = 0
    MaxClock = 2
    MaxTerm = 2
    MaxEvents = 1
    MaxInstalls = 0
    Coordinators = {n1}
    c1 = c1
    c2 = c2
    Commits = {c1, c2}
    MayOverlap = FALSE
SYMMETRY CommitSymmetry
VIEW WithoutWrites
INVARIANT SingleWriter
 
 
PROPERTIES
    RegainNeedsNewTerm
CHECK_DEADLOCK FALSE
