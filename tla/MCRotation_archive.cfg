\* One client: four runs that may fail, be given up or be rejected; text files.
CONSTANTS
    a = a  b = b  x = x  y = y  bin = bin  latin = latin  zero = zero
    none = none  nohunk = nohunk  meta = meta  c1 = c1
    Files = {a, b}
    Meta = meta
    Text = {x, y}
    Undecodable = {}
    Binary = {}
    Blank = {}
    Absent = none
    NoHunk = nohunk
    Clients = {c1}
    MirrorsRoot = FALSE
    Faults <- RunFaults
    MaxRuns = 4
SPECIFICATION Spec
INVARIANTS TypeOK ChainInv
PROPERTIES PromiseKept CompleteMeansMirrored
\* The bound on the runs, not the system, ends a behaviour.
CHECK_DEADLOCK FALSE
