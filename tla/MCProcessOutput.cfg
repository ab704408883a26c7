SPECIFICATION Spec
CONSTANTS
    Clients = {c1}
    NoOne = NoOne
    ExitCodes <- MCExitCodes
    MaxWrites = 1
    PipeCap = 1
    Grandchildren = FALSE
    TermHandlers = FALSE
    SigpipeIgnored = TRUE
INVARIANT OutputComplete
CHECK_DEADLOCK FALSE
