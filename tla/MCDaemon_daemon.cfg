\* A client whose runs are given up, cut, or stopped with the daemon, in any order; its
\* source ends in a slash.
SPECIFICATION FairSpec
CONSTANTS
    NoLink = NoLink
    Threads = {t1, t2}
    Clients = {c1}
    Before = 1
    MirrorsRoot = TRUE
    MaxRuns = 3
    Faults = {"tool", "disk", "giveUp", "rsync", "stop"}
INVARIANTS
    TypeOK
    AnswersMatch
    Contiguous
    RecordedWhenReported
    DiffNamesArchive
    MetadataMatchesLog
PROPERTIES
    StepsOfHistory
    ThreadsFreed
CHECK_DEADLOCK FALSE
