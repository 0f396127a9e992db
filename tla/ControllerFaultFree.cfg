SPECIFICATION Spec
CONSTANTS
    n1 = n1
    n2 = n2
    n3 = n3
    v1 = v1
    Volumes = {v1}
    Nodes = {n1, n2, n3}
    None = None
    MaxFaults = 0
SYMMETRY NodeSymmetry
INVARIANT CleanWhenDetached
INVARIANT AttachedIsServed
INVARIANT SingleServer
INVARIANT FaultFreeInv
