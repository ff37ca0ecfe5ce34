\* Two creations of one name at once, no fault.
CONSTANTS
    h1 = h1  h2 = h2  t1 = t1  t2 = t2
    Hosts = {h1, h2}
    Threads = {t1, t2}
    Faults <- NoFault
    MaxCommands = 2
SPECIFICATION Spec
INVARIANTS Kept
\* Nobody has to begin another command.
CHECK_DEADLOCK FALSE
