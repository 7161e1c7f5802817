\* Two programs of two builds, every call by one of them, a daemon that may crash.
SPECIFICATION Spec
CONSTANTS
    p1 = p1
    p2 = p2
    p3 = p3
    p4 = p4
    c1 = c1
    c2 = c2
    None = None
    Procs = {p1, p2, p3}
    Clients = {c1, c2}
    BinaryOf <- TwoBuilds
    Allowed <- EveryCall
    MaxCalls = 2
    MaxCrashes = 1
INVARIANTS
    TypeOK
    ServingOwnsFiles
PROPERTIES
    StopSparesStarting
\* The calls are bounded, and the last one may have returned.
CHECK_DEADLOCK FALSE
