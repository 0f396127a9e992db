SPECIFICATION FairSpec
CONSTANTS
    n1 = n1
    n2 = n2
    v1 = v1
    Volumes = {v1}
    Nodes = {n1, n2}
    None = None
    MaxFaults = 2
INVARIANT TypeOK
INVARIANT PVLockExclusion
INVARIANT AttachedHasServer
INVARIANT SliceNodePublished
INVARIANT IndInv
PROPERTY ImplementsAttachment
PROPERTY LockReleased
