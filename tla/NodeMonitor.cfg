SPECIFICATION FairSpec
CONSTANTS
    n1 = n1
    n2 = n2
    Nodes = {n1, n2}
    MaxBadPing = 2
    MaxFaults = 3
CHECK_DEADLOCK FALSE
INVARIANT AvailableIsDumped
INVARIANT IndInv
PROPERTY NodeComesBack
PROPERTY OutageIsRecovered
