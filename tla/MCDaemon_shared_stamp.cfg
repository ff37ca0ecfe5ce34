\* Two clients of one set, no fault.
SPECIFICATION FairSpec
CONSTANTS
    NoLink = NoLink
    Threads = {t1, t2}
    Clients = {c1, c2}
    Before = 0
    MirrorsRoot = FALSE
    MaxRuns = 2
    Faults = {}
INVARIANT StampedByOwnRun
CHECK_DEADLOCK FALSE
