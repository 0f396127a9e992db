SPECIFICATION Spec
CONSTANTS
    v1 = v1
    v2 = v2
    v3 = v3
    h1 = h1
    h2 = h2
    Volumes = {v1, v2, v3}
    Handlers = {h1, h2}
    Ops = {"export"}
    Forms = {"nfs"}
    MaxCalls = 3
    MaxFaults = 0
SYMMETRY Symmetry
INVARIANT ServedIsExported
