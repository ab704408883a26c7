SPECIFICATION Spec
CONSTANTS
    low = low
    mid = mid
    high = high
    h1 = h1
    h2 = h2
    h3 = h3
    h4 = h4
    Threads = {t1}
    NoThread = NoThread
    NoHandler = NoHandler
    Events <- MCEvents
    Existing <- MCExisting
    Handlers <- MCHandlers
    NullHandlers <- MCNullHandlers
    ClientCalls <- MCIdCalls
    Body <- MCNoBody
    MaxCalls = 6
    Rank <- MCRank
INVARIANT IdNamesItsHandler
