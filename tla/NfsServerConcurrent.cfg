SPECIFICATION Spec
CONSTANTS
    v1 = v1
    v2 = v2
    h1 = h1
    h2 = h2
    Volumes = {v1, v2}
    Handlers = {h1, h2}
    Ops = {"export", "unexport"}
    Forms = {"nfs"}
    MaxCalls = 4
    MaxFaults = 2
SYMMETRY Symmetry
INVARIANT UnexportedIsGone
INVARIANT ServedUnlessRegressed
INVARIANT IndInv
