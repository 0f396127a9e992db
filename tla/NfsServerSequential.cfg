SPECIFICATION Spec
CONSTANTS
    v1 = v1
    v2 = v2
    h1 = h1
    Volumes = {v1, v2}
    Handlers = {h1}
    Ops = {"export", "unexport", "ping"}
    Forms = {"nfs", "array"}
    MaxCalls = 5
    MaxFaults = 4
INVARIANT TypeOK
INVARIANT UnexportedIsGone
INVARIANT ServedIsExported
INVARIANT UnexportedIsUnmounted
