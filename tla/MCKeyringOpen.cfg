SPECIFICATION Spec
CONSTANTS
    Names = {n1, n2}
    Data = {d1, d2}
    NoData = NoData
    Secrets = {s1, s2, s3}
    NoSecret = NoSecret
    LooksFail = FALSE
INVARIANTS
    OpeningSurvives
CHECK_DEADLOCK FALSE
