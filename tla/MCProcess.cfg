SPECIFICATION FairSpec
CONSTANTS
    Clients = {c1, c2}
    NoOne = NoOne
    ExitCodes <- MCExitCodes
    MaxWrites = 2
    PipeCap = 1
    Grandchildren = TRUE
    TermHandlers = TRUE
    SigpipeIgnored = TRUE
INVARIANTS
    TypeOK
    StateMatchesChild
    CompletionIsTruthful
    OutputIsPrefix
    LossOnlyBeforeFirstDrain
PROPERTIES
    CompletedIsFinal
    PromiseKept
    ExitIsNoticed
    DestructorReturns
    KillEndsRunningChild
\* The system may stop for good: the object destroyed, or its child killed
\* while paused and every thread waiting for it.
CHECK_DEADLOCK FALSE
