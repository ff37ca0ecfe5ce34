\* Three attempts, with any failure in each.
CONSTANTS
    std = std  moved = moved  apart = apart  low = low  dflt = dflt
    opt = opt  home = home  blzbak = blzbak  data = data
    Nobody = Nobody
    Settings <- Entered
    Default = dflt
    Path <- PathOf
    Base <- BaseOf
    Hidden <- HomeOnly
    Unbindable <- LowPort
    MaxAttempts = 3
SPECIFICATION Spec
INVARIANTS TypeOK ServesConfigured EnabledStarts TempsRemoved
PROPERTIES InstallationEnds
\* The bound on the attempts ends a behaviour.
CHECK_DEADLOCK FALSE
