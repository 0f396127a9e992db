SPECIFICATION FairSpec
CONSTANTS
    n1 = n1
    n2 = n2
    v1 = v1
    r1 = r1
    r2 = r2
    Volumes = {v1}
    Nodes = {n1, n2}
    Recoveries = {r1, r2}
    None = None
    MaxFaults = 0
INVARIANT TypeOK
INVARIANT SliceNodeMapped
PROPERTY RecoveryEnds
CHECK_DEADLOCK FALSE
