\* Four commands of two processes.
CONSTANTS
    Commands = {c1, c2}
    Times = {daily, weekly}
    Default = daily
    Missing = missing
    Cut = cut
    MaxBegun = 4
SPECIFICATION Spec
INVARIANTS TypeOK JobWhole JobMatchesSet
\* Nobody has to begin another command.
CHECK_DEADLOCK FALSE
