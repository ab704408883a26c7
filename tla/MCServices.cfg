SPECIFICATION Spec
CONSTANTS
    o1 = o1
    o2 = o2
    o3 = o3
    MaxChanges = 3
    Callers = {t1, t2, t3}
    CancelFunctions = {f1, f2}
    NoFunction = NoFunction
    Inhibitors <- MCInhibitors
    Assigners = {a1, a2}
    Rank <- MCRank
    MaxCookies = 2
    JsonKeys = {k1, k2}
    JsonValues = {v1, v2}
    OtherValues = {w1}
    NoJson = NoJson
    Savers = {s1, s2}
    Root = root
    Below = {b1}
    Extensions = {txt, log}
    WatchedFlags = {"FileName"}
    WithBelow = TRUE
    QueueLimit = 2
    MaxEvents = 2
INVARIANTS
    TypeOK
    MonitorIsCurrent
    CancelCallsOnce
    InhibitionsAreOwned
    AssignmentsCanGoOn
    SavedIsLoaded
    ChangesAreReported
PROPERTIES
    MonitorCatchesUp
    WatcherStops
CHECK_DEADLOCK FALSE
