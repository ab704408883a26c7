SPECIFICATION FairSpec
CONSTANTS
    low = low
    mid = mid
    high = high
    h1 = h1
    h2 = h2
    h3 = h3
    h4 = h4
    Threads = {t1, t2}
    NoThread = NoThread
    NoHandler = NoHandler
    Events <- MCEvents
    Existing <- MCExisting
    Handlers <- MCHandlers
    NullHandlers <- MCNullHandlers
    ClientCalls <- MCClientCalls
    Body <- MCBody
    MaxCalls = 3
    Rank <- MCRank
INVARIANTS
    TypeOK
    InvocationIsStable
    InvocationsExclude
    LockOrder
PROPERTIES
    CallsReturn
