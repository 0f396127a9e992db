SPECIFICATION SharedSpec
CONSTANTS
    n1 = n1
    n2 = n2
    v1 = v1
    r1 = r1
    Volumes = {v1}
    Nodes = {n1, n2}
    Recoveries = {r1}
    None = None
    MaxFaults = 1
SYMMETRY NodeSymmetry
VIEW LiveState
INVARIANT AttachedHasServer
INVARIANT SettledInv
INVARIANT CleanAfterMove
INVARIANT AttachedStaysServed
PROPERTY ImplementsAttachment
