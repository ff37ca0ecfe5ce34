\* Two hosts with one set name, two workers, everything that can fail does.
CONSTANTS
    h1 = h1  h2 = h2  t1 = t1  t2 = t2
    Hosts = {h1, h2}
    Threads = {t1, t2}
    Faults <- EveryFault
    MaxCommands = 3
SPECIFICATION Spec
INVARIANTS TypeOK AcknowledgedKept RejectedLeavesNothing DeletedIsGone
PROPERTIES CommandsEnd
\* Nobody has to begin another command.
CHECK_DEADLOCK FALSE
