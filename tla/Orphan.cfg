\* Two programs of one build that start the daemon after it crashed.
SPECIFICATION FairSpec
CONSTANTS
    p1 = p1
    p2 = p2
    p3 = p3
    p4 = p4
    c1 = c1
    c2 = c2
    None = None
    Procs = {p1, p2, p3, p4}
    Clients = {c1, c2}
    BinaryOf <- OneBuild
    Allowed <- StartOnly
    MaxCalls = 2
    MaxCrashes = 1
PROPERTIES
    EnsureReaches
CHECK_DEADLOCK FALSE
