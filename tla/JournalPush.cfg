SPECIFICATION FairSpec
CONSTANTS
    n1 = n1
    n2 = n2
    n3 = n3
    Nodes = {n1, n2, n3}
    p1 = p1
    p2 = p2
    Pushers = {p1}
    MaxEvents = 2
    MaxRestores = 1
    MaxLate = 2
    MaxControls = 0
INVARIANT IInv
 
INVARIANT AckedHeld
 
CHECK_DEADLOCK FALSE
