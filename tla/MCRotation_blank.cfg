\* Zero-length files in the tree.
CONSTANTS
    a = a  b = b  x = x  y = y  bin = bin  latin = latin  zero = zero
    none = none  nohunk = nohunk  meta = meta  c1 = c1
    Files = {a, b}
    Meta = meta
    Text = {}
    Undecodable = {}
    Binary = {}
    Blank = {zero}
    Absent = none
    NoHunk = nohunk
    Clients = {c1}
    MirrorsRoot = FALSE
    Faults <- NoFault
    MaxRuns = 4
SPECIFICATION Spec
INVARIANTS RecreatedFromDiffs
\* The bound on the runs, not the system, ends a behaviour.
CHECK_DEADLOCK FALSE
