\* A source given without a slash, text and binary files; every fault but a copy of C
\* over O that stops half way.
CONSTANTS
    f = f  g = g  x = x  y = y  none = none  nohunk = nohunk  meta = meta  c1 = c1
    cut = cut
    Files <- OneFolder
    Slashed = {}
    Size <- SameSize
    Endings <- NoNames
    Beginnings <- NoNames
    Cut = cut
    Meta = meta
    Text = {x}
    Undecodable = {}
    Binary = {y}
    Blank = {}
    Absent = none
    NoHunk = nohunk
    Clients = {c1}
    MirrorsRoot = FALSE
    Faults <- MoreFaults
    MaxRuns = 3
SPECIFICATION Spec
INVARIANTS CurrentExact LocationsTrue
SYMMETRY AlikeFiles
\* The bound on the runs, not the system, ends a behaviour.
CHECK_DEADLOCK FALSE
