SPECIFICATION Spec
CONSTANTS
    n1 = n1
    n2 = n2
    n3 = n3
    Nodes = {n1, n2, n3}
    p1 = p1
    Pushers = {p1}
    MaxEvents = 2
    MaxRestores = 0
    MaxLate = 0
    MaxControls = 3
SYMMETRY NodeSymmetry
INVARIANT CertifiedHeld
INVARIANT PassedHolds
PROPERTY SnapshotsGrow
