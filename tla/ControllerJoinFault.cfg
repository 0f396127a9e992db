SPECIFICATION Spec
CONSTANTS
    n1 = n1
    n2 = n2
    v1 = v1
    Volumes = {v1}
    Nodes = {n1, n2}
    None = None
    MaxFaults = 1
SYMMETRY NodeSymmetry
INVARIANT JoinsExistingServer
