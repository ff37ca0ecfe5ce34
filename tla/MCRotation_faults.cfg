\* One client whose source path ends in a slash, so that rsync deletes .blzbak-metadata;
\* files that make diff's output undecodable, runs that are dry, copies of C over O that
\* stop half way.
CONSTANTS
    a = a  b = b  x = x  y = y  bin = bin  latin = latin  zero = zero
    none = none  nohunk = nohunk  meta = meta  c1 = c1
    Files = {a, b}
    Meta = meta
    Text = {x}
    Undecodable = {latin}
    Binary = {}
    Blank = {}
    Absent = none
    NoHunk = nohunk
    Clients = {c1}
    MirrorsRoot = TRUE
    Faults <- MoreFaults
    MaxRuns = 4
SPECIFICATION Spec
INVARIANTS StillOnDisk StampedByOwnRun
\* The bound on the runs, not the system, ends a behaviour.
CHECK_DEADLOCK FALSE
