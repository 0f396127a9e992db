SPECIFICATION FairSpec
CONSTANTS
    v1 = v1
    v2 = v2
    p1 = p1
    h1 = h1
    h2 = h2
    None = None
    Volumes = {v1, v2}
    Pods = {p1}
    Handlers = {h1, h2}
    MaxCalls <- CallBounds
    MaxFaults = 1
CHECK_DEADLOCK FALSE
INVARIANT TypeOK
INVARIANT PublishedIsShared
INVARIANT ReleasedIsUnmounted
PROPERTY HandlersEnd
