SPECIFICATION FairSpec
CONSTANTS
    Clients = {c1}
    NoOne = NoOne
    ExitCodes <- MCExitCodes
    MaxWrites = 1
    PipeCap = 1
    Grandchildren = FALSE
    TermHandlers = FALSE
    SigpipeIgnored = TRUE
PROPERTY KilledEnds
CHECK_DEADLOCK FALSE
