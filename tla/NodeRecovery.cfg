SPECIFICATION Spec
CONSTANTS
    n1 = n1
    n2 = n2
    n3 = n3
    v1 = v1
    v2 = v2
    r1 = r1
    r2 = r2
    Volumes = {v1, v2}
    Nodes = {n1, n2, n3}
    Recoveries = {r1, r2}
    None = None
    MaxFaults = 1
SYMMETRY Symmetry
CONSTRAINT StillClaimed
INVARIANT MovedIsServed
INVARIANT Spread
INVARIANT AllMoved
CHECK_DEADLOCK FALSE
