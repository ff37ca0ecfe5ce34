\* One host whose client gives up waiting.
CONSTANTS
    h1 = h1  h2 = h2  t1 = t1  t2 = t2
    Hosts = {h1}
    Threads = {t1}
    Faults <- Impatience
    MaxCommands = 2
SPECIFICATION Spec
INVARIANTS FailedCreateLeavesNothing
\* Nobody has to begin another command.
CHECK_DEADLOCK FALSE
