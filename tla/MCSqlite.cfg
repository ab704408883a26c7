SPECIFICATION Spec
CONSTANTS
    Rows = {r1, r2}
    Passwords = {p1, p2}
    Plain = Plain
    NoRow = NoRow
    Failures = TRUE
    Statements = TRUE
INVARIANTS
    TypeOK
    NothingLost
    OwnerCanOpen
    FlagsTellTheFile
PROPERTIES
    FileKept
CHECK_DEADLOCK FALSE
