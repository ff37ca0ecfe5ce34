\* A source given with a slash, with two files in a folder; runs that fail or are given
\* up.
CONSTANTS
    f = f  g = g  x = x  y = y  none = none  nohunk = nohunk  meta = meta  c1 = c1
    cut = cut
    Files <- OneFolder
    Slashed = {"etc"}
    Size <- SameSize
    Endings <- NoNames
    Beginnings <- NoNames
    Cut = cut
    Meta = meta
    Text = {x, y}
    Undecodable = {}
    Binary = {}
    Blank = {}
    Absent = none
    NoHunk = nohunk
    Clients = {c1}
    MirrorsRoot = TRUE
    Faults <- RunFaults
    MaxRuns = 3
SPECIFICATION Spec
INVARIANTS CurrentExact HistoryTrue HistoryComplete
SYMMETRY Alike
\* The bound on the runs, not the system, ends a behaviour.
CHECK_DEADLOCK FALSE
